---- MODULE Spec2Model ----
(***************************************************************************)
(* Model of the compound-group update protocol of camelid:                 *)
(*   camelid/cmgroup.py      CMGroup, batch_cmg_search                     *)
(*   camelid/pubchemutils.py gen_compounds and the PubChem requests        *)
(* One Python process runs at a time; it is single-threaded.  The files of *)
(* a group (parameters, CID Result List, result log) survive the process,  *)
(* the attributes of the CMGroup objects (listkey) do not.                 *)
(***************************************************************************)
EXTENDS Integers, Sequences, FiniteSets, TLC

(* ------------------------------- bounds -------------------------------- *)
NumGroups == 2      \* most groups handed to batch_cmg_search
MaxCid    == 6      \* CIDs are 1..MaxCid; the longest result list has MaxCid CIDs
MaxLogLen == 8      \* an update starts only if the log stays within MaxLogLen lines
MaxCalls  == 3      \* calls a caller makes, and stops of the process, in one behaviour

(* -------------------------- program constants -------------------------- *)
None      == 0      \* Python None (no ListKey, no date); also '' for creation_date
BatchSize == 5      \* islice(new, 5)
Accepted  == 202    \* status code of a search that is accepted or not ready yet
PollDelay == 10     \* sleep(10) between two requests for the results
Wait      == 10     \* substruct_search(..., wait=10)

CIDs == 1..MaxCid
Days == {1, 2, 3}   \* three calendar days in a row
Todays == {2}       \* date.today() while the process runs
Keys == {1}         \* the ListKey of an accepted search

(* ------------------------------ sequences ------------------------------ *)
Range(s) == {s[i] : i \in 1..Len(s)}

IsPrefix(s, t) == Len(s) <= Len(t) /\ SubSeq(t, 1, Len(s)) = s

Distinct(s) == \A i, j \in 1..Len(s) : s[i] = s[j] => i = j

Upto(n) == [i \in 1..n |-> i]

Down(n) == [i \in 1..n |-> n + 1 - i]

\* list.index(x): position of the first occurrence (the caller knows x is in s)
Index(s, x) == CHOOSE i \in 1..Len(s) : s[i] = x /\ \A j \in 1..(i - 1) : s[j] # x

VARIABLES
    \* group parameters and service data: fixed for a behaviour
    searchtype,       \* params['searchtype'] of each group
    last_updated,     \* CMGroup._last_updated: None or a day
    created,          \* the service's creation date of each CID: None (unknown) or a day
    \* files of each group
    current_update,   \* <id>_params.json: the saved current_update (None: not set)
    params_exists,    \* <id>_params.json exists
    cids_exists,      \* <id>_cids.json exists
    cids_file,        \* <id>_cids.json: the JSON array (<<>> when the file is absent)
    cpds_exists,      \* <id>_cpds.jsonl exists
    cpds_file,        \* <id>_cpds.jsonl: the text written so far, as a sequence of pieces
    \* attributes of the CMGroup objects of the running process
    listkey,          \* CMGroup._listkey
    \* the service
    in_flight,        \* a search of the group was accepted and its results are not saved
    \* the update_from_cids call in progress, or the last one that ended
    upc,              \* "none", "fetch", "write", "done", "noop", "raised"
    ug,               \* self of that call (0: none)
    returned_cids,    \* its local returned_cids
    cids,             \* the CIDs gen_compounds has not reached yet
    new_compounds,    \* the batch islice(new, 5) is collecting
    nfetch,           \* requests made to the service by this call
    start_log,        \* the log's content when the call began
    start_exists,     \* whether the log file existed then
    again,            \* the call follows a completed update of the same CID Result List
    \* the batch_cmg_search call in progress
    bpc,              \* "idle", "init", "sleep", "retrieve", "update", "updating"
    bi,               \* index of the group the current loop is at
    resume_update,    \* its argument
    init_called,      \* groups whose init_pubchem_search it has called
    retr_called,      \* groups whose retrieve_pubchem_search it has called
    retr_saved,       \* groups for which that call saved a CID Result List
    sleeps,           \* times it has slept the shared wait
    excel_calls,      \* to_excel calls per group
    \* history of each group's log
    cycle_prefix,     \* when the group's update cycle began, the log held the records
                      \* of a prefix of the CID Result List
    clean_crash,      \* the process stopped between two batch writes in this cycle
    completed,        \* an update_from_cids call of this cycle ran to its end
    calls,            \* calls made and stops of the process so far
    \* the exchange with the service made by the step just taken
    svc,              \* the init_pubchem_search or retrieve_pubchem_search call and its outcome
    \* a call of one of the search functions of pubchemutils
    fn,               \* "none", "init_substruct_search", "retrieve_search_results",
                      \* "substruct_search"
    fpc,              \* "idle", "answered", "wait", "polled", "slept", "returned", "raised"
    fkey,             \* the listkey argument of retrieve_search_results
    req,              \* search_req / key_req: the latest response of the service
    nap,              \* seconds of the latest sleep of the call (0: none yet)
    fret,             \* what the call returned or raised
    \* a function of the package applied on its own
    util              \* the function, its argument and what it returned or raised

consts == <<searchtype, last_updated, created>>
files  == <<current_update, params_exists, cids_exists, cids_file, cpds_exists, cpds_file>>
runv   == <<upc, ug, returned_cids, cids, new_compounds, nfetch, start_log, start_exists, again>>
batchv == <<bpc, bi, resume_update, init_called, retr_called, retr_saved, sleeps,
           excel_calls>>
hist   == <<cycle_prefix, clean_crash, completed>>
mainv  == <<consts, files, listkey, in_flight, runv, batchv, hist, calls, svc>>
searchv == <<fn, fpc, fkey, req, nap, fret>>
vars   == <<mainv, searchv, util>>

G == DOMAIN listkey

(* --------------------------- the result log ---------------------------- *)
\* A piece of the log's text: a record written whole with its newline
\* ("line"), the beginning of a record cut off before its newline ("part"),
\* or a whole line that is not JSON ("junk").
\* what get_compound_info finds for a CID
CASRN_list(c) == IF c % 2 = 1 THEN "50-00-0 7732-18-5" ELSE ""

IUPAC_name(c) == IF c % 3 = 0 THEN "oxidane" ELSE "formaldehyde"

\* json.dumps(cpd) + '\n': the line of a record
dumps(cpd) ==
    [k |-> "line", cid |-> cpd.CID, date |-> cpd.creation_date,
     casrn |-> cpd.CASRN_list, name |-> cpd.IUPAC_name]

\* json.loads(line) of a line that is JSON
loads(line) ==
    [CID |-> line.cid, CASRN_list |-> line.casrn, IUPAC_name |-> line.name,
     creation_date |-> line.date]

\* the record gen_compounds yields for CID c with creation date d
Result(c, d) ==
    [CID |-> c, CASRN_list |-> CASRN_list(c), IUPAC_name |-> IUPAC_name(c),
     creation_date |-> d]

Line(c, d) == dumps(Result(c, d))
Part(c)    == [k |-> "part", cid |-> c, date |-> None, casrn |-> "", name |-> ""]
Junk       == [k |-> "junk", cid |-> None, date |-> None, casrn |-> "", name |-> ""]

\* The lines a reader sees: text after a cut-off record runs on in the same
\* line up to the next newline, and that line is not JSON.
RECURSIVE ReadLines(_, _)
ReadLines(text, dirty) ==
    IF text = <<>> THEN (IF dirty THEN <<Junk>> ELSE <<>>)
    ELSE IF Head(text).k = "part" THEN ReadLines(Tail(text), TRUE)
    ELSE IF dirty \/ Head(text).k = "junk" THEN <<Junk>> \o ReadLines(Tail(text), FALSE)
    ELSE <<Head(text)>> \o ReadLines(Tail(text), FALSE)

Lines(text) == ReadLines(text, FALSE)

\* gen_compounds: the record of a CID (creation_date '' when the date is unknown)
Compound(c) == Line(c, created[c])

RECURSIVE Compounds(_)
Compounds(s) == IF s = <<>> THEN <<>> ELSE <<Compound(Head(s))>> \o Compounds(Tail(s))

\* mutant: a CID created on the day of last_updated is skipped too
Skipped_SameDay(g, c) ==
    last_updated[g] # None /\ created[c] # None /\ created[c] <= last_updated[g]

\* gen_compounds skips a CID created before the day of last_updated
Skipped(g, c) == last_updated[g] # None /\ created[c] # None /\ created[c] < last_updated[g]

RECURSIVE Kept(_, _)
Kept(g, s) ==
    IF s = <<>> THEN <<>>
    ELSE (IF Skipped(g, Head(s)) THEN <<>> ELSE <<Head(s)>>) \o Kept(g, Tail(s))

\* the log holds exactly the records of the CIDs of a prefix of list that
\* the date filter of group g keeps
KeptPrefix(g, text, list) ==
    \E n \in 0..Len(list) : text = Compounds(Kept(g, SubSeq(list, 1, n)))

(* ------------------------------- Init ---------------------------------- *)
ResultLists == {Upto(0), Upto(2), Upto(MaxCid), Down(3), <<1, 2, 1>>}

SmallLists == {Upto(0), Upto(2)}

\* what a search can return: any list when one group is handled, a short one
\* when several are
SearchResults == IF Cardinality(G) = 1 THEN ResultLists ELSE SmallLists

DateMaps ==
    { [c \in CIDs |-> 2],
      [c \in CIDs |-> ((c - 1) % 3) + 1],
      [c \in CIDs |-> IF c = 2 THEN None ELSE IF c > 3 THEN 1 ELSE 2] }

InitLogs(cr) ==
    { <<>>, <<Line(MaxCid, cr[MaxCid])>>, <<Line(1, cr[1]), Junk>>, <<Line(1, cr[1]), Part(2)>> }
    \cup { [i \in 1..n |-> Line(i, cr[i])] : n \in 1..3 }

(* ------------------- pubchemutils: the search functions ---------------- *)
\* A response of the service: its status code and what its body holds - the
\* ListKey of a waiting search, a list of CIDs, JSON with neither ("Fault"),
\* or text that is not JSON.
Statuses == {200, Accepted, 404}

Responses ==
    [status : Statuses, body : {"Fault", "text"}, key : {None}, cids : {<<>>}]
    \cup [status : Statuses, body : {"Waiting"}, key : Keys, cids : {<<>>}]
    \cup [status : Statuses, body : {"IdentifierList"}, key : {None}, cids : ResultLists]

NoResponse == [status |-> None, body |-> "none", key |-> None, cids |-> <<>>]

\* what a function returned ("None", "ListKey", "list") or raised
Returned(kind, k, c) == [exc |-> "none", kind |-> kind, key |-> k, cids |-> c]

Raised(e) == [exc |-> e, kind |-> "exception", key |-> None, cids |-> <<>>]

NoResult == [exc |-> "none", kind |-> "none", key |-> None, cids |-> <<>>]

\* init_substruct_search, from the response on: None for any status but 202,
\* else str(search_req.json()['Waiting']['ListKey'])
init_substruct_search(r) ==
    IF r.status # Accepted THEN Returned("None", None, <<>>)
    ELSE IF r.body = "text" THEN Raised("ValueError")
    ELSE IF r.body # "Waiting" THEN Raised("KeyError")
    ELSE Returned("ListKey", r.key, <<>>)

\* mutant: a response that carries a list of CIDs ends the polling, whatever
\* its status code
NotReady_UnlessList(r) == r.status = Accepted /\ r.body # "IdentifierList"

\* while key_req.status_code == 202
NotReady(r) == r.status = Accepted

\* retrieve_search_results, past the loop:
\* key_req.json()['IdentifierList']['CID'].  Indexing a dict with a missing
\* key raises KeyError, which except IndexError does not catch.
retrieve_search_results(r) ==
    IF r.body = "text" THEN Raised("ValueError")
    ELSE IF r.body # "IdentifierList" THEN Raised("KeyError")
    ELSE Returned("list", None, r.cids)

\* a call of init_pubchem_search or retrieve_pubchem_search on group g: what
\* the service answered ("none": it was not asked), the list it gave, and
\* whether an exception left the method
Exchange(op, g, resp, c, raised) ==
    [op |-> op, g |-> g, resp |-> resp, cids |-> c, raised |-> raised]

\* no call of init_pubchem_search or retrieve_pubchem_search in this step
NoCall == [op |-> "none", g |-> 0, resp |-> "none", cids |-> <<>>, raised |-> FALSE]

\* a step that calls neither method, and no search function on its own
NoSearch == svc' = NoCall /\ UNCHANGED <<searchv, util>>

\* no function is applied on its own
NoUtil == [fn |-> "none"]

\* no search function is running
SearchIdle ==
    /\ fn = "none" /\ fpc = "idle" /\ fkey = None
    /\ req = NoResponse /\ nap = 0 /\ fret = NoResult

InitOne ==
    /\ searchtype = [g \in {1} |-> "substructure"]
    /\ last_updated \in [{1} -> {None, 2}]
    /\ created \in DateMaps
    /\ cids_exists \in [{1} -> BOOLEAN]
    /\ cids_file \in [{1} -> ResultLists]
    /\ cids_exists[1] \/ cids_file[1] = <<>>
    /\ cpds_exists \in [{1} -> BOOLEAN]
    /\ cpds_file \in [{1} -> InitLogs(created)]
    /\ cpds_exists[1] \/ cpds_file[1] = <<>>

InitMany ==
    /\ searchtype \in [1..NumGroups -> {"substructure", "other"}]
    /\ Cardinality({g \in 1..NumGroups : searchtype[g] = "other"}) <= 1
    /\ last_updated = [g \in 1..NumGroups |-> None]
    /\ created = [c \in CIDs |-> 2]
    /\ cids_exists \in [1..NumGroups -> BOOLEAN]
    /\ cids_file = [g \in 1..NumGroups |-> IF cids_exists[g] THEN Upto(2) ELSE <<>>]
    /\ cpds_exists \in [1..NumGroups -> BOOLEAN]
    /\ \A g \in 1..NumGroups : cpds_exists[g] => cids_exists[g]
    /\ cpds_file = [g \in 1..NumGroups |->
                       IF cpds_exists[g] THEN <<Line(1, 2), Line(2, 2)>> ELSE <<>>]

Init ==
    /\ InitOne \/ InitMany
    /\ current_update = [g \in DOMAIN searchtype |-> None]
    /\ params_exists = [g \in DOMAIN searchtype |-> TRUE]
    /\ listkey = [g \in DOMAIN searchtype |-> None]
    /\ in_flight = [g \in DOMAIN searchtype |-> FALSE]
    /\ upc = "none" /\ ug = 0 /\ returned_cids = <<>> /\ cids = <<>>
    /\ new_compounds = <<>> /\ nfetch = 0 /\ start_log = <<>>
    /\ start_exists = FALSE /\ again = FALSE
    /\ bpc = "idle" /\ bi = 0 /\ resume_update = FALSE
    /\ init_called = {} /\ retr_called = {} /\ retr_saved = {} /\ sleeps = 0
    /\ excel_calls = [g \in DOMAIN searchtype |-> 0]
    /\ cycle_prefix = [g \in DOMAIN searchtype |-> KeptPrefix(g, cpds_file[g], cids_file[g])]
    /\ clean_crash = [g \in DOMAIN searchtype |-> FALSE]
    /\ completed = [g \in DOMAIN searchtype |-> FALSE]
    /\ calls = 0
    /\ svc = NoCall
    /\ SearchIdle
    /\ util = NoUtil

(* -------------------------- CMGroup: files ----------------------------- *)
\* mutant: a missing file is read as a list of one CID
get_returned_cids_Default(g) == IF cids_exists[g] THEN cids_file[g] ELSE <<1>>

\* get_compounds: every line of the log decoded, in order; [] when the file
\* is missing or one of its lines is not JSON (ValueError)
get_compounds(g) ==
    IF ~cpds_exists[g] THEN <<>>
    ELSE LET ls == Lines(cpds_file[g]) IN
         IF \E i \in 1..Len(ls) : ls[i].k # "line" THEN <<>>
         ELSE [i \in 1..Len(ls) |-> loads(ls[i])]

\* get_returned_cids: the saved list, [] when the file is missing
get_returned_cids(g) == IF cids_exists[g] THEN cids_file[g] ELSE <<>>

\* a new update cycle of group g begins, with this log and this list
NewCycle(g, text, list) ==
    /\ cycle_prefix' = [cycle_prefix EXCEPT ![g] = KeptPrefix(g, text, list)]
    /\ clean_crash' = [clean_crash EXCEPT ![g] = FALSE]
    /\ completed' = [completed EXCEPT ![g] = FALSE]

\* mutant: the new list is added behind the list the file held
save_returned_cids_Extend(g, c) ==
    /\ cids_exists' = [cids_exists EXCEPT ![g] = TRUE]
    /\ cids_file' = [cids_file EXCEPT ![g] = @ \o c]
    /\ in_flight' = [in_flight EXCEPT ![g] = FALSE]
    /\ NewCycle(g, cpds_file[g], cids_file[g] \o c)

\* save_returned_cids: open(self._cids_file, 'w'); json.dump(cids).  The
\* results of the group's search are on disk from here on.
save_returned_cids(g, c) ==
    /\ cids_exists' = [cids_exists EXCEPT ![g] = TRUE]
    /\ cids_file' = [cids_file EXCEPT ![g] = c]
    /\ in_flight' = [in_flight EXCEPT ![g] = FALSE]
    /\ NewCycle(g, cpds_file[g], c)

\* a call by the caller, or a stop of the process
Called == calls < MaxCalls /\ calls' = calls + 1

\* no update_from_cids call is in progress or remembered
ResetRun ==
    /\ upc' = "none" /\ ug' = 0 /\ returned_cids' = <<>> /\ cids' = <<>>
    /\ new_compounds' = <<>> /\ nfetch' = 0 /\ start_log' = <<>>
    /\ start_exists' = FALSE /\ again' = FALSE

ResetBatch ==
    /\ bpc' = "idle" /\ bi' = 0 /\ resume_update' = FALSE
    /\ init_called' = {} /\ retr_called' = {} /\ retr_saved' = {} /\ sleeps' = 0
    /\ excel_calls' = [g \in G |-> 0]

Running == upc \in {"fetch", "write"}

\* the caller is between two top-level calls
Idle == bpc = "idle" /\ ~Running

(* -------------------- CMGroup.init_pubchem_search ---------------------- *)
\* raises: the call ends in an exception (NotImplementedError for another
\* searchtype, KeyError for a 202 answer without Waiting/ListKey).  A non-202
\* answer makes init_substruct_search return None, which is stored as the key.
\* mutant: the searchtype is looked at only after the search was requested
\* and the date saved
init_pubchem_search_CheckLate(g, raises) ==
    \E resp \in {"accepted", "rejected", "malformed"} :
      /\ svc' = Exchange("init", g, resp, <<>>, raises)
      /\ IF resp = "malformed"
         THEN raises /\ UNCHANGED <<listkey, current_update, params_exists, in_flight>>
         ELSE /\ raises = (searchtype[g] # "substructure")
              /\ \E key \in Keys :
                   listkey' = [listkey EXCEPT ![g] = IF resp = "accepted" THEN key ELSE None]
              /\ in_flight' = [in_flight EXCEPT ![g] = @ \/ resp = "accepted"]
              /\ \E today \in Todays :
                   current_update' = [current_update EXCEPT ![g] = today]
              /\ params_exists' = [params_exists EXCEPT ![g] = TRUE]

init_pubchem_search(g, raises) ==
    IF searchtype[g] # "substructure"
    THEN /\ raises /\ UNCHANGED <<listkey, current_update, params_exists, in_flight>>
         /\ svc' = Exchange("init", g, "none", <<>>, raises)
    ELSE \E resp \in {"accepted", "rejected", "malformed"} :
           /\ svc' = Exchange("init", g, resp, <<>>, raises)
           /\ IF resp = "malformed"
              THEN raises /\ UNCHANGED <<listkey, current_update, params_exists, in_flight>>
              ELSE /\ ~raises
                   /\ \E key \in Keys :
                        listkey' = [listkey EXCEPT ![g] = IF resp = "accepted" THEN key ELSE None]
                   /\ in_flight' = [in_flight EXCEPT ![g] = @ \/ resp = "accepted"]
                   /\ \E today \in Todays :
                        current_update' = [current_update EXCEPT ![g] = today]
                   /\ params_exists' = [params_exists EXCEPT ![g] = TRUE]

(* ------------------ CMGroup.retrieve_pubchem_search -------------------- *)
\* mutant: the ListKey is cleared before the results are asked for
retrieve_pubchem_search_ClearFirst(g, raises) ==
    IF listkey[g] = None
    THEN /\ ~raises /\ UNCHANGED <<listkey, cids_exists, cids_file, in_flight, hist>>
         /\ svc' = Exchange("retrieve", g, "none", <<>>, raises)
    ELSE /\ listkey' = [listkey EXCEPT ![g] = None]
         /\ \E resp \in {"cids", "fault"} :
              IF resp = "fault"
              THEN /\ raises /\ UNCHANGED <<cids_exists, cids_file, in_flight, hist>>
                   /\ svc' = Exchange("retrieve", g, resp, <<>>, raises)
              ELSE /\ ~raises
                   /\ \E c \in SearchResults :
                        /\ save_returned_cids(g, c)
                        /\ svc' = Exchange("retrieve", g, resp, c, raises)

\* mutant: the service is asked whether or not there is a ListKey
retrieve_pubchem_search_NoGuard(g, raises) ==
    \E resp \in {"cids", "fault"} :
      IF resp = "fault"
      THEN /\ raises /\ UNCHANGED <<listkey, cids_exists, cids_file, in_flight, hist>>
           /\ svc' = Exchange("retrieve", g, resp, <<>>, raises)
      ELSE /\ ~raises
           /\ \E c \in SearchResults :
                /\ save_returned_cids(g, c)
                /\ svc' = Exchange("retrieve", g, resp, c, raises)
           /\ listkey' = [listkey EXCEPT ![g] = None]

\* raises: retrieve_search_results raised (a finished request whose JSON has
\* no IdentifierList: KeyError, which the except WebServiceError lets through).
retrieve_pubchem_search(g, raises) ==
    IF listkey[g] = None
    THEN /\ ~raises /\ UNCHANGED <<listkey, cids_exists, cids_file, in_flight, hist>>
         /\ svc' = Exchange("retrieve", g, "none", <<>>, raises)
    ELSE \E resp \in {"cids", "fault"} :
           IF resp = "fault"
           THEN /\ raises /\ UNCHANGED <<listkey, cids_exists, cids_file, in_flight, hist>>
                /\ svc' = Exchange("retrieve", g, resp, <<>>, raises)
           ELSE /\ ~raises
                /\ \E c \in SearchResults :
                     /\ save_returned_cids(g, c)
                     /\ svc' = Exchange("retrieve", g, resp, c, raises)
                /\ listkey' = [listkey EXCEPT ![g] = None]

(* ---------------------- CMGroup.update_from_cids ----------------------- *)
\* JSONLIterator(cpds_file, reverse=True).next() inside open(..., 'r'): the
\* last line parsed, or the exception of a missing file, an empty file or a
\* last line that is not JSON
last_item(g) ==
    IF ~cpds_exists[g] THEN [exc |-> "FileNotFoundError", cid |-> None]
    ELSE LET ls == Lines(cpds_file[g]) IN
         IF ls = <<>> THEN [exc |-> "StopIteration", cid |-> None]
         ELSE IF ls[Len(ls)].k # "line" THEN [exc |-> "ValueError", cid |-> None]
         ELSE [exc |-> "none", cid |-> ls[Len(ls)].cid]

\* mutant: the slice starts at the last CID of the log instead of past it
Resume_OffByOne(g, rc) ==
    LET li == last_item(g) IN
    IF li.exc # "none" THEN [exc |-> li.exc, cids |-> <<>>]
    ELSE IF li.cid \notin Range(rc) THEN [exc |-> "ValueError", cids |-> <<>>]
    ELSE [exc |-> "none", cids |-> SubSeq(rc, Index(rc, li.cid), Len(rc))]

\* mutant: a last CID that is not in the list leaves nothing to process
Resume_UnknownIsEnd(g, rc) ==
    LET li == last_item(g) IN
    IF li.exc # "none" THEN [exc |-> li.exc, cids |-> <<>>]
    ELSE IF li.cid \notin Range(rc) THEN [exc |-> "none", cids |-> <<>>]
    ELSE [exc |-> "none", cids |-> SubSeq(rc, Index(rc, li.cid) + 1, Len(rc))]

\* the try block: returned_cids[returned_cids.index(last_cid) + 1:]
Resume(g, rc) ==
    LET li == last_item(g) IN
    IF li.exc # "none" THEN [exc |-> li.exc, cids |-> <<>>]
    ELSE IF li.cid \notin Range(rc) THEN [exc |-> "ValueError", cids |-> <<>>]
    ELSE [exc |-> "none", cids |-> SubSeq(rc, Index(rc, li.cid) + 1, Len(rc))]

\* mutant: a last line that is not JSON is not caught
ResumeCaught_NoValueError == {"FileNotFoundError", "StopIteration"}

\* except (FileNotFoundError, ValueError, StopIteration)
ResumeCaught == {"FileNotFoundError", "ValueError", "StopIteration"}

\* the slice left to process: past the CID of the log's last line, or the
\* whole list when the try block raised
Remaining(g, rc) ==
    LET r == Resume(g, rc) IN IF r.exc = "none" THEN r.cids ELSE rc

\* the call up to pc.gen_compounds(cids, self.last_updated)
UpdateBegin(g) ==
    LET rc == get_returned_cids(g) IN
    /\ Len(cpds_file[g]) + Len(Remaining(g, rc)) <= MaxLogLen
    /\ ug' = g /\ returned_cids' = rc
    /\ start_log' = cpds_file[g] /\ start_exists' = cpds_exists[g]
    /\ again' = completed[g]
    /\ nfetch' = 0 /\ new_compounds' = <<>>
    /\ IF rc = <<>>
       THEN upc' = "noop" /\ cids' = <<>>
       ELSE IF Resume(g, rc).exc \in ResumeCaught \cup {"none"}
       THEN upc' = "fetch" /\ cids' = Remaining(g, rc)
       ELSE upc' = "raised" /\ cids' = <<>>
    /\ completed' = [completed EXCEPT ![g] = @ \/ rc = <<>>]
    /\ UNCHANGED <<cycle_prefix, clean_crash>>

\* an exception leaves update_from_cids, and batch_cmg_search when it made the call
Raise ==
    /\ upc' = "raised"
    /\ bpc' = "idle"
    /\ UNCHANGED <<ug, returned_cids, cids, new_compounds, start_log, start_exists, again>>
    /\ UNCHANGED <<bi, resume_update, init_called, retr_called, retr_saved, sleeps, excel_calls>>

\* mutant: the records are collected until the generator is exhausted
GenNext_Unbatched ==
    /\ upc = "fetch" /\ cids # <<>>
    /\ LET c == Head(cids) IN
       IF last_updated[ug] # None /\ created[c] = None
       THEN /\ nfetch' = nfetch + 1          \* created - last_updated: TypeError
            /\ Raise
       ELSE IF Skipped(ug, c)
       THEN /\ nfetch' = nfetch + 1
            /\ cids' = Tail(cids)
            /\ UNCHANGED <<upc, ug, returned_cids, new_compounds, start_log, start_exists, again>>
            /\ UNCHANGED batchv
       ELSE \E ok \in BOOLEAN :
              /\ nfetch' = nfetch + 2
              /\ IF ok
                 THEN /\ cids' = Tail(cids)
                      /\ new_compounds' = Append(new_compounds, Compound(c))
                      /\ upc' = "fetch"
                      /\ UNCHANGED <<ug, returned_cids, start_log, start_exists, again, batchv>>
                 ELSE Raise                  \* get_compound_info raised
    /\ UNCHANGED <<consts, files, listkey, in_flight, hist, calls>>
    /\ NoSearch

\* gen_compounds, one CID: the creation date, the date filter, the record
GenNext ==
    /\ upc = "fetch" /\ cids # <<>>
    /\ LET c == Head(cids) IN
       IF last_updated[ug] # None /\ created[c] = None
       THEN /\ nfetch' = nfetch + 1          \* created - last_updated: TypeError
            /\ Raise
       ELSE IF Skipped(ug, c)
       THEN /\ nfetch' = nfetch + 1
            /\ cids' = Tail(cids)
            /\ UNCHANGED <<upc, ug, returned_cids, new_compounds, start_log, start_exists, again>>
            /\ UNCHANGED batchv
       ELSE \E ok \in BOOLEAN :
              /\ nfetch' = nfetch + 2
              /\ IF ok
                 THEN /\ cids' = Tail(cids)
                      /\ new_compounds' = Append(new_compounds, Compound(c))
                      /\ upc' = IF Len(new_compounds) + 1 = BatchSize THEN "write" ELSE "fetch"
                      /\ UNCHANGED <<ug, returned_cids, start_log, start_exists, again, batchv>>
                 ELSE Raise                  \* get_compound_info raised
    /\ UNCHANGED <<consts, files, listkey, in_flight, hist, calls>>
    /\ NoSearch

\* gen_compounds is exhausted: the last batch is written, or the loop breaks
GenExhausted ==
    /\ upc = "fetch" /\ cids = <<>>
    /\ upc' = IF new_compounds = <<>> THEN "done" ELSE "write"
    /\ completed' = [completed EXCEPT ![ug] = @ \/ new_compounds = <<>>]
    /\ UNCHANGED <<ug, returned_cids, cids, new_compounds, nfetch, start_log, start_exists, again>>
    /\ UNCHANGED <<consts, files, listkey, in_flight, batchv, cycle_prefix, clean_crash, calls>>
    /\ NoSearch

\* mutant: the log is opened with 'w'
AppendCompounds_Truncate(g, lines) ==
    /\ cpds_exists' = [cpds_exists EXCEPT ![g] = TRUE]
    /\ cpds_file' = [cpds_file EXCEPT ![g] = lines]

\* open(self._compounds_file, 'a'); one line per compound of the batch
AppendCompounds(g, lines) ==
    /\ cpds_exists' = [cpds_exists EXCEPT ![g] = TRUE]
    /\ cpds_file' = [cpds_file EXCEPT ![g] = cpds_file[g] \o lines]

WriteBatch ==
    /\ upc = "write"
    /\ AppendCompounds(ug, new_compounds)
    /\ new_compounds' = <<>>
    /\ upc' = "fetch"
    /\ UNCHANGED <<ug, returned_cids, cids, nfetch, start_log, start_exists, again>>
    /\ UNCHANGED <<consts, current_update, params_exists, cids_exists, cids_file, listkey, in_flight>>
    /\ UNCHANGED <<batchv, hist, calls>>
    /\ NoSearch

(* -------------------------- CMGroup.clear_data ------------------------- *)
\* how many of the three files of the group os.remove finds
Found(g) ==
    LET n == Cardinality({f \in {"params", "cids", "cpds"} :
                            \/ f = "params" /\ params_exists[g]
                            \/ f = "cids" /\ cids_exists[g]
                            \/ f = "cpds" /\ cpds_exists[g]})
    IN  IF n = 0 THEN "nothing" ELSE IF n = 3 THEN "all" ELSE "some"

\* mutant: the CID Result List file is left in place
clear_data_KeepCids(g) ==
    /\ current_update' = [current_update EXCEPT ![g] = None]
    /\ params_exists' = [params_exists EXCEPT ![g] = FALSE]
    /\ UNCHANGED <<cids_exists, cids_file>>
    /\ cpds_exists' = [cpds_exists EXCEPT ![g] = FALSE]
    /\ cpds_file' = [cpds_file EXCEPT ![g] = <<>>]

\* os.remove of the three files; a file that is missing is passed over
clear_data(g) ==
    /\ current_update' = [current_update EXCEPT ![g] = None]
    /\ params_exists' = [params_exists EXCEPT ![g] = FALSE]
    /\ cids_exists' = [cids_exists EXCEPT ![g] = FALSE]
    /\ cids_file' = [cids_file EXCEPT ![g] = <<>>]
    /\ cpds_exists' = [cpds_exists EXCEPT ![g] = FALSE]
    /\ cpds_file' = [cpds_file EXCEPT ![g] = <<>>]

(* ----------------- calls made on one group by a caller ----------------- *)
CallInit(g) ==
    /\ Idle /\ Called
    /\ \E raises \in BOOLEAN : init_pubchem_search(g, raises)
    /\ ResetRun
    /\ UNCHANGED <<consts, cids_exists, cids_file, cpds_exists, cpds_file, batchv, hist>>
    /\ UNCHANGED <<searchv, util>>

CallRetrieve(g) ==
    /\ Idle /\ Called
    /\ \E raises \in BOOLEAN : retrieve_pubchem_search(g, raises)
    /\ ResetRun
    /\ UNCHANGED <<consts, current_update, params_exists, cpds_exists, cpds_file, batchv>>
    /\ UNCHANGED <<searchv, util>>

CallUpdate(g) ==
    /\ Idle /\ Called
    /\ UpdateBegin(g)
    /\ UNCHANGED <<consts, files, listkey, in_flight, batchv>>
    /\ NoSearch

CallClear(g) ==
    /\ Idle /\ Called
    /\ clear_data(g)
    /\ NewCycle(g, <<>>, <<>>)
    /\ ResetRun
    /\ UNCHANGED <<consts, listkey, in_flight, batchv>>
    /\ svc' = Exchange("clear", g, Found(g), <<>>, FALSE)
    /\ UNCHANGED <<searchv, util>>

(* --------------------------- batch_cmg_search -------------------------- *)
\* mutant: resume_update is not looked at, the searches are always made
BatchStart_AlwaysSearch(r) ==
    /\ Idle /\ Called
    /\ bpc' = "init" /\ bi' = 1 /\ resume_update' = r
    /\ init_called' = {} /\ retr_called' = {} /\ retr_saved' = {} /\ sleeps' = 0
    /\ excel_calls' = [g \in G |-> 0]
    /\ ResetRun
    /\ UNCHANGED <<consts, files, listkey, in_flight, hist>>
    /\ NoSearch

\* if not resume_update: ... ; the loop to start with
BatchStart(r) ==
    /\ Idle /\ Called
    /\ bpc' = (IF r THEN "update" ELSE "init") /\ bi' = 1 /\ resume_update' = r
    /\ init_called' = {} /\ retr_called' = {} /\ retr_saved' = {} /\ sleeps' = 0
    /\ excel_calls' = [g \in G |-> 0]
    /\ ResetRun
    /\ UNCHANGED <<consts, files, listkey, in_flight, hist>>
    /\ NoSearch

\* mutant: the wait and the retrieval follow each initiation (as pubchem_update does)
BatchInit_WaitEach ==
    /\ bpc = "init"
    /\ \E raises \in BOOLEAN :
         /\ init_pubchem_search(bi, raises)
         /\ bpc' = IF raises THEN "idle" ELSE "sleep"
         /\ bi' = bi
    /\ init_called' = init_called \cup {bi}
    /\ UNCHANGED <<consts, cids_exists, cids_file, cpds_exists, cpds_file, runv, hist>>
    /\ UNCHANGED <<resume_update, retr_called, retr_saved, sleeps, excel_calls, calls>>
    /\ UNCHANGED <<searchv, util>>

\* for group in groups: group.init_pubchem_search()
BatchInit ==
    /\ bpc = "init"
    /\ \E raises \in BOOLEAN :
         /\ init_pubchem_search(bi, raises)
         /\ bpc' = IF raises THEN "idle" ELSE IF bi = Cardinality(G) THEN "sleep" ELSE "init"
         /\ bi' = IF raises \/ bi = Cardinality(G) THEN bi ELSE bi + 1
    /\ init_called' = init_called \cup {bi}
    /\ UNCHANGED <<consts, cids_exists, cids_file, cpds_exists, cpds_file, runv, hist>>
    /\ UNCHANGED <<resume_update, retr_called, retr_saved, sleeps, excel_calls, calls>>
    /\ UNCHANGED <<searchv, util>>

\* sleep(wait)
BatchSleep ==
    /\ bpc = "sleep"
    /\ sleeps' = sleeps + 1
    /\ bpc' = "retrieve" /\ bi' = 1
    /\ UNCHANGED <<consts, files, listkey, in_flight, runv, hist>>
    /\ UNCHANGED <<resume_update, init_called, retr_called, retr_saved, excel_calls, calls>>
    /\ NoSearch

\* for group in groups: group.retrieve_pubchem_search(**kwargs)
BatchRetrieve ==
    /\ bpc = "retrieve"
    /\ \E raises \in BOOLEAN :
         /\ retrieve_pubchem_search(bi, raises)
         /\ bpc' = IF raises THEN "idle" ELSE IF bi = Cardinality(G) THEN "update" ELSE "retrieve"
         /\ bi' = IF raises THEN bi ELSE IF bi = Cardinality(G) THEN 1 ELSE bi + 1
    /\ retr_called' = retr_called \cup {bi}
    /\ retr_saved' = IF svc'.resp = "cids" THEN retr_saved \cup {bi} ELSE retr_saved
    /\ UNCHANGED <<consts, current_update, params_exists, cpds_exists, cpds_file, runv>>
    /\ UNCHANGED <<resume_update, init_called, sleeps, excel_calls, calls>>
    /\ UNCHANGED <<searchv, util>>

\* for group in groups: group.update_from_cids() ...
BatchUpdate ==
    /\ bpc = "update"
    /\ UpdateBegin(bi)
    /\ bpc' = IF upc' = "raised" THEN "idle" ELSE "updating"
    /\ UNCHANGED <<consts, files, listkey, in_flight>>
    /\ UNCHANGED <<bi, resume_update, init_called, retr_called, retr_saved, sleeps, excel_calls, calls>>
    /\ NoSearch

\* mutant: a group whose update found no CID Result List is not exported
BatchExcel_SkipEmpty ==
    /\ bpc = "updating" /\ upc \in {"done", "noop"}
    /\ excel_calls' = [excel_calls EXCEPT ![bi] = IF upc = "noop" THEN @ ELSE @ + 1]
    /\ bpc' = IF bi = Cardinality(G) THEN "idle" ELSE "update"
    /\ bi' = IF bi = Cardinality(G) THEN bi ELSE bi + 1
    /\ UNCHANGED <<consts, files, listkey, in_flight, runv, hist>>
    /\ UNCHANGED <<resume_update, init_called, retr_called, retr_saved, sleeps, calls>>
    /\ NoSearch

\* ... group.to_excel()
BatchExcel ==
    /\ bpc = "updating" /\ upc \in {"done", "noop"}
    /\ excel_calls' = [excel_calls EXCEPT ![bi] = @ + 1]
    /\ bpc' = IF bi = Cardinality(G) THEN "idle" ELSE "update"
    /\ bi' = IF bi = Cardinality(G) THEN bi ELSE bi + 1
    /\ UNCHANGED <<consts, files, listkey, in_flight, runv, hist>>
    /\ UNCHANGED <<resume_update, init_called, retr_called, retr_saved, sleeps, calls>>
    /\ NoSearch

(* ------------------------ the process stops ---------------------------- *)
\* mutant: the constructor starts from the default parameters
get_params_Default(g) == None

\* get_params, as far as current_update goes: the value of the saved
\* parameters, or that of BASE_PARAMS when there is no file
get_params(g) == IF params_exists[g] THEN current_update[g] ELSE None

\* CMGroup.__init__ of every group in a new process: the parameters given
\* (which have no current_update) are laid over get_params() and saved;
\* self._listkey = None
NewProcess ==
    /\ current_update' = [g \in G |-> get_params(g)]
    /\ params_exists' = [g \in G |-> TRUE]
    /\ listkey' = [g \in G |-> None]

\* The process dies anywhere outside a write to the log, and a new process
\* constructs the groups again.
Crash ==
    /\ ~Idle \/ \E g \in G : listkey[g] # None \/ ~params_exists[g]
    /\ Called
    /\ NewProcess
    /\ clean_crash' = IF Running THEN [clean_crash EXCEPT ![ug] = TRUE] ELSE clean_crash
    /\ ResetRun /\ ResetBatch
    /\ UNCHANGED <<consts, cids_exists, cids_file, cpds_exists, cpds_file>>
    /\ UNCHANGED <<in_flight, cycle_prefix, completed>>
    /\ NoSearch

\* The process dies inside the write of a batch: any number of its lines has
\* reached the file, and possibly the beginning of the next one.
CrashInWrite ==
    /\ upc = "write"
    /\ Called
    /\ \E i \in 0..(Len(new_compounds) - 1), cut \in BOOLEAN :
         LET written == SubSeq(new_compounds, 1, i)
                        \o (IF cut THEN <<Part(new_compounds[i + 1].cid)>> ELSE <<>>)
         IN  /\ AppendCompounds(ug, written)
             /\ NewCycle(ug, cpds_file[ug] \o written, cids_file[ug])
    /\ NewProcess
    /\ ResetRun /\ ResetBatch
    /\ UNCHANGED <<consts, cids_exists, cids_file, in_flight>>
    /\ NoSearch

Next ==
    \/ \E g \in G : CallInit(g)
    \/ \E g \in G : CallRetrieve(g)
    \/ \E g \in G : CallUpdate(g)
    \/ \E g \in G : CallClear(g)
    \/ \E r \in BOOLEAN : BatchStart(r)
    \/ BatchInit
    \/ BatchSleep
    \/ BatchRetrieve
    \/ BatchUpdate
    \/ BatchExcel
    \/ GenNext
    \/ GenExhausted
    \/ WriteBatch
    \/ Crash
    \/ CrashInWrite

Spec == Init /\ [][Next]_vars

(* ------------- update_from_cids re-invoked after every crash ----------- *)
\* One group whose search results have been saved and whose log, if there is
\* one, holds the records of a prefix of the list. update_from_cids is called,
\* the process stops, between writes or inside one, and update_from_cids is
\* called again by the next process: the list stays the same.
InitResume ==
    /\ Init
    /\ DOMAIN searchtype = {1}
    /\ cids_exists[1] /\ Distinct(cids_file[1])
    /\ cycle_prefix[1]

NextResume ==
    \/ \E g \in G : CallUpdate(g)
    \/ GenNext
    \/ GenExhausted
    \/ WriteBatch
    \/ Crash
    \/ CrashInWrite

SpecResume == InitResume /\ [][NextResume]_vars

(* --------------- the search functions called on their own -------------- *)
\* One call at a time of init_substruct_search, retrieve_search_results or
\* substruct_search, against a service that answers each request as it likes.
\* No CMGroup is involved: one group with no files, never touched.
InitSearch ==
    /\ Init
    /\ DOMAIN searchtype = {1}
    /\ last_updated[1] = None /\ created = [c \in CIDs |-> 2]
    /\ ~cids_exists[1] /\ ~cpds_exists[1]

\* init_substruct_search, or substruct_search which begins with it, up to
\* search_req = requests.get(search_url)
CallSearch ==
    /\ fpc = "idle"
    /\ fn' \in {"init_substruct_search", "substruct_search"}
    /\ req' \in Responses
    /\ fpc' = "answered"
    /\ UNCHANGED <<fkey, nap, fret, mainv, util>>

\* the rest of init_substruct_search; in substruct_search its result is the
\* listkey handed on to retrieve_search_results
InitSearchReturn ==
    /\ fpc = "answered"
    /\ LET out == init_substruct_search(req) IN
       IF out.exc # "none"
       THEN fpc' = "raised" /\ fret' = out /\ fkey' = fkey
       ELSE IF fn = "substruct_search"
       THEN fpc' = "wait" /\ fret' = fret /\ fkey' = out.key
       ELSE fpc' = "returned" /\ fret' = out /\ fkey' = fkey
    /\ UNCHANGED <<fn, req, nap, mainv, util>>

\* substruct_search: sleep(wait), then retrieve_search_results up to its
\* first key_req = requests.get(key_url)
SubstructWait ==
    /\ fpc = "wait"
    /\ nap' = Wait
    /\ req' \in Responses
    /\ fpc' = "polled"
    /\ UNCHANGED <<fn, fkey, fret, mainv, util>>

\* retrieve_search_results(listkey) up to its first
\* key_req = requests.get(key_url)
CallRetrieveResults ==
    /\ fpc = "idle"
    /\ fn' = "retrieve_search_results"
    /\ fkey' \in Keys \cup {None}
    /\ req' \in Responses
    /\ fpc' = "polled"
    /\ UNCHANGED <<nap, fret, mainv, util>>

\* while key_req.status_code == 202: sleep(10)
PollSleep ==
    /\ fpc = "polled" /\ NotReady(req)
    /\ nap' = PollDelay
    /\ fpc' = "slept"
    /\ UNCHANGED <<fn, fkey, req, fret, mainv, util>>

\* ... key_req = requests.get(key_url)
PollAgain ==
    /\ fpc = "slept"
    /\ req' \in Responses
    /\ fpc' = "polled"
    /\ UNCHANGED <<fn, fkey, nap, fret, mainv, util>>

\* past the loop: the try block
RetrieveReturn ==
    /\ fpc = "polled" /\ ~NotReady(req)
    /\ fret' = retrieve_search_results(req)
    /\ fpc' = IF fret'.exc = "none" THEN "returned" ELSE "raised"
    /\ UNCHANGED <<fn, fkey, req, nap, mainv, util>>

\* the caller has the result or the exception; the locals are gone
SearchEnd ==
    /\ fpc \in {"returned", "raised"}
    /\ fn' = "none" /\ fpc' = "idle" /\ fkey' = None
    /\ req' = NoResponse /\ nap' = 0 /\ fret' = NoResult
    /\ UNCHANGED <<mainv, util>>

NextSearch ==
    \/ CallSearch
    \/ InitSearchReturn
    \/ SubstructWait
    \/ CallRetrieveResults
    \/ PollSleep
    \/ PollAgain
    \/ RetrieveReturn
    \/ SearchEnd

SpecSearch == InitSearch /\ [][NextSearch]_vars

\* the interpreter keeps running the function that was called
FairSearch == SpecSearch /\ WF_vars(NextSearch)

(* ------------- the constructor's date, startup and validate ------------ *)
\* Text is a sequence of one-character strings. These steps touch no group:
\* util holds the call that was made and what came of it.
MaxParts == 4
MaxCasLen == 6

Digits == <<"0", "1", "2", "3", "4", "5", "6", "7", "8", "9">>

\* a character that \d matches and int() reads
isdigit(ch) == \E i \in 1..10 : Digits[i] = ch

int_digit(ch) == (CHOOSE i \in 1..10 : Digits[i] = ch) - 1

\* int(x) raises ValueError unless x is a non-empty run of digits
int_ok(x) == x # <<>> /\ \A i \in 1..Len(x) : isdigit(x[i])

RECURSIVE int(_)
int(x) ==
    IF x = <<>> THEN 0
    ELSE 10 * int(SubSeq(x, 1, Len(x) - 1)) + int_digit(x[Len(x)])

\* str.split(sep): the pieces between the separators, empty ones included
RECURSIVE split(_, _)
split(s, sep) ==
    IF \A i \in 1..Len(s) : s[i] # sep THEN <<s>>
    ELSE LET k == CHOOSE i \in 1..Len(s) :
                      s[i] = sep /\ \A j \in 1..(i - 1) : s[j] # sep
         IN  <<SubSeq(s, 1, k - 1)>> \o split(SubSeq(s, k + 1, Len(s)), sep)

\* sep.join(parts)
RECURSIVE join(_, _)
join(parts, sep) ==
    IF parts = <<>> THEN <<>>
    ELSE IF Len(parts) = 1 THEN parts[1]
    ELSE parts[1] \o <<sep>> \o join(Tail(parts), sep)

days_in_month(y, m) ==
    IF m = 2 THEN (IF y % 4 = 0 /\ (y % 100 # 0 \/ y % 400 = 0) THEN 29 ELSE 28)
    ELSE IF m \in {4, 6, 9, 11} THEN 30 ELSE 31

\* date(*date_args): TypeError unless there are three arguments, ValueError
\* unless they name a day of the calendar; the day is kept as yyyymmdd
date(args) ==
    IF Len(args) # 3 THEN [exc |-> "TypeError", day |-> None]
    ELSE IF /\ args[1] \in 1..9999 /\ args[2] \in 1..12
            /\ args[3] \in 1..days_in_month(args[1], args[2])
         THEN [exc |-> "", day |-> args[1] * 10000 + args[2] * 100 + args[3]]
         ELSE [exc |-> "ValueError", day |-> None]

\* a value of a parameter: JSON null, or text
Null   == [null |-> TRUE, str |-> <<>>]
Str(s) == [null |-> FALSE, str |-> s]

\* self._params = self.get_params(); self._params.update(params), as far as
\* 'last_updated' goes: base is what get_params() holds for the key
update(base, params) == IF params.has THEN params.value ELSE base

\* CMGroup.__init__ from "Determine whether we are checking for new
\* additions": None has no split (AttributeError, which the except clause
\* does not name); ValueError from int() or date() and TypeError from date()
\* are caught and leave None
CMGroup_init(base, params) ==
    LET v == update(base, params) IN
    IF v.null THEN [raised |-> "AttributeError", last_updated |-> None]
    ELSE LET parts == split(v.str, "-") IN
         IF \E i \in 1..Len(parts) : ~int_ok(parts[i])
         THEN [raised |-> "", last_updated |-> None]
         ELSE LET d == date([i \in 1..Len(parts) |-> int(parts[i])]) IN
              [raised |-> "", last_updated |-> IF d.exc = "" THEN d.day ELSE None]

DateParts == {<<"2", "0", "1", "6">>, <<"2", "0", "1", "7">>, <<"0", "2">>,
              <<"2", "9">>, <<"1", "3">>, <<>>, <<"x">>}

PartLists == UNION {[1..n -> DateParts] : n \in 1..MaxParts}

\* what get_params() holds for 'last_updated': None of BASE_PARAMS, or the
\* text an earlier constructor put there
BaseValues == {Null, Str(join(<<<<"2", "0", "1", "6">>, <<"0", "2">>, <<"2", "9">>>>, "-"))}

Construct ==
    /\ util.fn = "none"
    /\ \E base \in BaseValues, has \in BOOLEAN, null \in BOOLEAN, parts \in PartLists :
         /\ (has /\ ~null) \/ Len(parts) = 1
         /\ LET value  == IF null \/ ~has THEN Null ELSE Str(join(parts, "-"))
                params == [has |-> has, value |-> value]
            IN  util' = [fn |-> "__init__", base |-> base, params |-> params,
                         out |-> CMGroup_init(base, params)]
    /\ UNCHANGED <<mainv, searchv>>

KeyPaths == {"key.json", "env.json"}

\* mutant: the FileNotFoundError of the credentials file is let through
SheetManager_init_NoCatch(key_file, getenv, exists) ==
    IF key_file = "" /\ getenv = "" THEN "NoCredentialsError"
    ELSE IF (IF key_file # "" THEN key_file ELSE getenv) \notin exists
         THEN "FileNotFoundError" ELSE ""

\* SheetManager.__init__ up to the credentials: "" is None or the unset
\* variable (both false in `if key_file:`); the result is what is raised
SheetManager_init(key_file, getenv, exists) ==
    IF key_file = "" /\ getenv = "" THEN "NoCredentialsError"
    ELSE IF (IF key_file # "" THEN key_file ELSE getenv) \notin exists
         THEN "NoCredentialsError" ELSE ""

\* CamelidEnv.run: the steps it takes in order and what it raises.
\* gs.SheetManager(self._key_file, self.worksheet) passes the key file as the
\* first positional argument, the title: key_file keeps its default None.
run(json_file, clean_start, key_file, getenv, exists) ==
    LET raised == IF json_file THEN "" ELSE SheetManager_init("", getenv, exists)
        source == IF json_file THEN "cmgs_from_json" ELSE "SheetManager"
    IN  [raised |-> raised,
         steps  |-> IF raised # "" THEN <<source>>
                    ELSE <<source, "CMGroup">>
                         \o (IF clean_start THEN <<"clear_data">> ELSE <<>>)
                         \o <<"batch_cmg_search">>]

Startup ==
    /\ util.fn = "none"
    /\ \E json_file \in BOOLEAN, clean_start \in BOOLEAN,
          key_file \in KeyPaths \cup {""}, getenv \in KeyPaths \cup {""},
          exists \in SUBSET KeyPaths :
         util' = [fn |-> "run", json_file |-> json_file,
                  clean_start |-> clean_start, key_file |-> key_file,
                  getenv |-> getenv, exists |-> exists,
                  out |-> run(json_file, clean_start, key_file, getenv, exists)]
    /\ UNCHANGED <<mainv, searchv>>

\* np.arange(a, b)
arange(a, b) == [i \in 1..(b - a) |-> a + i - 1]

\* s[::-1]
reversed(s) == [i \in 1..Len(s) |-> s[Len(s) - i + 1]]

\* sum(a * b) of two arrays of one length
RECURSIVE sum_product(_, _)
sum_product(a, b) ==
    IF a = <<>> THEN 0
    ELSE Head(a) * Head(b) + sum_product(Tail(a), Tail(b))

\* mutant: the weights are not reversed
check_digit_Forward(nums) ==
    sum_product([i \in 1..(Len(nums) - 1) |-> int_digit(nums[i])],
                arange(1, Len(nums))) % 10

\* sum(digits[:-1] * np.arange(1, len(nums))[::-1]) % 10
check_digit(nums) ==
    sum_product([i \in 1..(Len(nums) - 1) |-> int_digit(nums[i])],
                reversed(arange(1, Len(nums)))) % 10

\* mutant: a valid input is returned as it was given
validate_AsGiven(casrn, output) ==
    LET nums  == SelectSeq(casrn, isdigit)
        n     == Len(nums)
        valid == IF n < 5 THEN FALSE
                 ELSE check_digit(nums) = int_digit(nums[n])
    IN  IF output = "bool"
        THEN [kind |-> "bool", bool |-> valid, str |-> <<>>]
        ELSE IF valid
             THEN [kind |-> "str", bool |-> TRUE, str |-> casrn]
             ELSE [kind |-> "None", bool |-> FALSE, str |-> <<>>]

\* validate: the digits of the input in order; valid, and with it the
\* hyphenated text, or None, shown here as kind "None"
validate(casrn, output) ==
    LET nums  == SelectSeq(casrn, isdigit)
        n     == Len(nums)
        valid == IF n < 5 THEN FALSE
                 ELSE check_digit(nums) = int_digit(nums[n])
    IN  IF output = "bool"
        THEN [kind |-> "bool", bool |-> valid, str |-> <<>>]
        ELSE IF valid
             THEN [kind |-> "str", bool |-> TRUE,
                   str |-> join(<<SubSeq(nums, 1, n - 3), SubSeq(nums, n - 2, n - 1),
                                  SubSeq(nums, n, n)>>, "-")]
             ELSE [kind |-> "None", bool |-> FALSE, str |-> <<>>]

CasChars == {"0", "5", "7", "-", " "}

\* the examples of the docstring of validate: '50--00--0 ' and '50-00-5'
CasExamples == {<<"5", "0", "-", "-", "0", "0", "-", "-", "0", " ">>,
                <<"5", "0", "-", "0", "0", "-", "5">>}

CasTexts == CasExamples \cup UNION {[1..n -> CasChars] : n \in 0..MaxCasLen}

Validate ==
    /\ util.fn = "none"
    /\ \E casrn \in CasTexts, output \in {"str", "bool"} :
         util' = [fn |-> "validate", casrn |-> casrn, output |-> output,
                  raised |-> "", out |-> validate(casrn, output)]
    /\ UNCHANGED <<mainv, searchv>>

\* the digits d: all but the last three, a hyphen, the next two, a hyphen,
\* the last one
Canonical(d) ==
    [i \in 1..(Len(d) + 2) |->
        IF i <= Len(d) - 3 THEN d[i]
        ELSE IF i = Len(d) - 2 THEN "-"
        ELSE IF i <= Len(d) THEN d[i - 1]
        ELSE IF i = Len(d) + 1 THEN "-"
        ELSE d[Len(d)]]

(* ---------------------------- casrnutils.find -------------------------- *)
MaxFindLen == 8

\* [-\u2013\u2014]: the hyphen, the en dash and the em dash, the latter two
\* written by name
issep(ch) == ch \in {"-", "en dash", "em dash"}

\* the number of digits in a row that begin at s[i]
RECURSIVE digit_run(_, _)
digit_run(s, i) ==
    IF i > Len(s) \/ ~isdigit(s[i]) THEN 0 ELSE 1 + digit_run(s, i + 1)

\* casrn_rx = (\d{2,7})[-...](\d{2})[-...]\d tried at position i: the index
\* of the last character of the match, or 0. The first group has to take the
\* whole run of digits, a separator has to follow it.
match_end(s, i) ==
    LET n == digit_run(s, i) IN
    IF /\ n \in 2..7 /\ i + n + 4 <= Len(s)
       /\ issep(s[i + n]) /\ isdigit(s[i + n + 1]) /\ isdigit(s[i + n + 2])
       /\ issep(s[i + n + 3]) /\ isdigit(s[i + n + 4])
    THEN i + n + 4 ELSE 0

\* casrn_rx.finditer(string) from position pos on: the leftmost match, then
\* on behind it
RECURSIVE finditer(_, _)
finditer(s, pos) ==
    IF pos > Len(s) THEN <<>>
    ELSE IF match_end(s, pos) # 0
         THEN <<SubSeq(s, pos, match_end(s, pos))>> \o finditer(s, match_end(s, pos) + 1)
         ELSE finditer(s, pos + 1)

\* filter(None, ...): what is not None stays
not_None(r) == r.kind = "str"

\* mutant: the matches are not validated, only put in canonical form
find_NoValidate(string) ==
    LET found == finditer(string, 1) IN
    [i \in 1..Len(found) |-> Canonical(SelectSeq(found[i], isdigit))]

\* find(string) with lenient=False and valid=True
find(string) ==
    LET found     == finditer(string, 1)
        validated == [i \in 1..Len(found) |-> validate(found[i], "str")]
        kept      == SelectSeq(validated, not_None)
    IN  [i \in 1..Len(kept) |-> kept[i].str]

FindExample ==
    <<"F", "o", "r", "m", "a", "l", "d", "e", "h", "y", "d", "e", " ", "(",
    "5", "0", "-", "0", "0", "-", "0", ")", ",", " ", "c", "o", "p", "o",
    "l", "y", "m", "e", "r", " ", "w", "i", "t", "h", " ", "u", "r", "e",
    "a", " ", "(", "5", "7", "-", "1", "3", "-", "6", ")">>

FindChars == {"0", "5", "-"}

FindTexts ==
    {FindExample, <<"5", "0", "-", "0", "0", "-", "0", " ", "5", "0", "-", "0", "0", "-", "0">>,
     <<"5", "0", "-", "0", "0", "-", "5", " ", "5", "7", "-", "1", "3", "-", "6">>,
     <<"5", "0", "en dash", "0", "0", "em dash", "0">>}
    \cup UNION {[1..n -> FindChars] : n \in 0..MaxFindLen}

Find ==
    /\ util.fn = "none"
    /\ \E string \in FindTexts :
         util' = [fn |-> "find", string |-> string, raised |-> "",
                  out |-> find(string)]
    /\ UNCHANGED <<mainv, searchv>>

(* ---------------------- pubchemutils.get_compound_info ----------------- *)
\* get_compound_info is written against validate(casrn, boolean=True) and
\* find_valid(string) of metacamel/casrnutils.py, which are validate with
\* output='bool' and find in strict mode with validation.
MaxKnown == 2
MaxSyn == 3

\* IndexedSet.add: a new item goes to the end, one that is there stays put
IndexedSet_add(set, item) ==
    IF \E i \in 1..Len(set) : set[i] = item THEN set ELSE Append(set, item)

\* IndexedSet.update: add every item in order
RECURSIVE IndexedSet_update(_, _)
IndexedSet_update(set, items) ==
    IF items = <<>> THEN set
    ELSE IndexedSet_update(IndexedSet_add(set, Head(items)), Tail(items))

\* get_known_casrns: of the StringValues of the CAS section, in the order of
\* the response, those that validate are added as they were given
RECURSIVE get_known_casrns(_)
get_known_casrns(values) ==
    IF values = <<>> THEN <<>>
    ELSE LET rest == get_known_casrns(SubSeq(values, 1, Len(values) - 1))
             v    == values[Len(values)]
         IN  IF validate(v, "bool").bool THEN IndexedSet_add(rest, v) ELSE rest

\* mutant: the CASRNs of the synonyms are put first
get_compound_info_SynonymsFirst(values, synonyms) ==
    LET casrns == IndexedSet_update(find(join(synonyms, " ")), get_known_casrns(values))
    IN  [casrns |-> casrns, CASRN_list |-> join(casrns, " ")]

\* get_compound_info, as far as CASRN_list goes: values is what the service
\* designates as CAS, synonyms is cpd.synonyms
get_compound_info(values, synonyms) ==
    LET casrns == IndexedSet_update(get_known_casrns(values), find(join(synonyms, " ")))
    IN  [casrns |-> casrns, CASRN_list |-> join(casrns, " ")]

KnownValues == {<<"5", "0", "-", "0", "0", "-", "0">>, <<"5", "7", "-", "1", "3", "-", "6">>,
                <<"5", "0", "-", "0", "0", "-", "5">>}

Synonyms == {<<"5", "0", "-", "0", "0", "-", "0">>, <<"5", "7", "-", "1", "3", "-", "6">>,
             <<"7", "5", "-", "0", "7", "-", "0">>, <<"u", "r", "e", "a">>}

CompoundInfo ==
    /\ util.fn = "none"
    /\ \E values \in UNION {[1..n -> KnownValues] : n \in 0..MaxKnown},
          synonyms \in UNION {[1..n -> Synonyms] : n \in 0..MaxSyn} :
         util' = [fn |-> "get_compound_info", values |-> values,
                  synonyms |-> synonyms, raised |-> "",
                  out |-> get_compound_info(values, synonyms)]
    /\ UNCHANGED <<mainv, searchv>>

(* ------------------------ synutils.select_synonym ---------------------- *)
\* [A-Z]
isupper(ch) ==
    ch \in
    {"A", "B", "C", "D", "E", "F", "G", "H", "I", "J", "K", "L", "M", "N",
    "O", "P", "Q", "R", "S", "T", "U", "V", "W", "X", "Y", "Z"}

\* patt.search of a pattern that begins with ^ and a literal text
startswith(s, prefix) ==
    Len(s) >= Len(prefix) /\ SubSeq(s, 1, Len(prefix)) = prefix

\* DESELECT: does any of the ten patterns match somewhere in the synonym
deselected(s) ==
    \/ Len(s) >= 2 /\ isdigit(s[1]) /\ isdigit(s[2])             \* ^\d{2,}
    \/ \E i \in 1..Len(s) : digit_run(s, i) >= 3                  \* \d{3,}
    \/ s # <<>> /\ \A i \in 1..Len(s) : isdigit(s[i])             \* ^\d+$
    \/ Len(s) = 10 /\ \A i \in 1..10 : isupper(s[i]) \/ isdigit(s[i])
    \/ startswith(s, <<"I", "n", "C", "h", "I">>)
    \/ \E i \in 1..(Len(s) - 26) :                                \* InChIKey
         /\ \A k \in i..(i + 13) : isupper(s[k])
         /\ s[i + 14] = "-"
         /\ \A k \in (i + 15)..(i + 24) : isupper(s[k])
         /\ s[i + 25] = "-" /\ isupper(s[i + 26])
    \/ startswith(s, <<"A", "C", "1">>)
    \/ startswith(s, <<"W", "L", "N", ":">>)
    \/ startswith(s, <<"A", "C", "M", "C", "-">>)
    \/ /\ Len(s) >= 4 /\ s[1] = "C" /\ digit_run(s, 2) >= 1       \* ^C\d+H\d+
       /\ Len(s) >= digit_run(s, 2) + 3
       /\ s[digit_run(s, 2) + 2] = "H" /\ isdigit(s[digit_run(s, 2) + 3])

\* SELECT: ^UNII- or ^CHEMBL
selected(s) ==
    \/ startswith(s, <<"U", "N", "I", "I", "-">>)
    \/ startswith(s, <<"C", "H", "E", "M", "B", "L">>)

\* mutant: select_name in its place, a deselected synonym is dropped
select_synonym_Name(s) == ~deselected(s)

select_synonym(s) == selected(s) \/ ~deselected(s)

SynPrefixes == {<<>>, <<"U", "N", "I", "I", "-">>, <<"C", "H", "E", "M", "B", "L">>,
                <<"I", "n", "C", "h", "I">>, <<"A", "C", "1">>, <<"W", "L", "N", ":">>,
                <<"A", "C", "M", "C", "-">>, <<"C", "2", "8", "H", "1", "8">>, <<"1", "2">>}

SynBodies == {<<>>, <<"1", "2", "3", "4", "5">>, <<"a", "z", "i", "r", "i", "d", "i", "n", "e">>,
              <<"=", "F", "O", "O", "B", "A", "R">>, <<"N", "4", "O", "6", "S", "4", ".", "2", "N", "a">>, <<"1">>,
              <<"A", "B", "C", "D", "E", "1", "2", "3", "4", "5">>,
              <<"W", "S", "F", "S", "S", "N", "U", "M", "V", "M", "O", "O", "M", "R", "-", "U", "H", "F", "F", "F", "A", "O", "Y", "S", "A", "-", "N">>}

SelectSynonym ==
    /\ util.fn = "none"
    /\ \E prefix \in SynPrefixes, body \in SynBodies :
         util' = [fn |-> "select_synonym", synonym |-> prefix \o body,
                  raised |-> "", out |-> select_synonym(prefix \o body)]
    /\ UNCHANGED <<mainv, searchv>>

(* ------------------- CMGroup: the parameters of groups ----------------- *)
\* One process that constructs groups and initiates their searches, as far as
\* the parameter dicts go. util holds the module's BASE_PARAMS dict, for
\* each group whether its _params is that very dict or a dict of its own,
\* the parameter files, and the search string each search was initiated
\* with. A dict is shown by its keys materialid, searchstring, current_update.
PGroups == 1..NumGroups

\* the parameter record of group g, from the sheet or the JSON file
ParamRecord(g) ==
    [materialid |-> g,
     searchstring |-> <<"CCO", "C=O", "c1ccccc1", "CCl", "CBr">>[g]]

\* BASE_PARAMS as the module defines it
BASE_PARAMS == [materialid |-> None, searchstring |-> "", current_update |-> None]

\* dict.update(params)
dict_update(d, params) ==
    [d EXCEPT !.materialid = params.materialid, !.searchstring = params.searchstring]

\* self._params of group g in the process p
params_of(p, g) == IF p.ref[g] = "BASE_PARAMS" THEN p.BASE_PARAMS ELSE p.own[g]

\* a process starts: the module is loaded, no group exists; a group has a
\* parameter file if an earlier process constructed it
StartProcess ==
    /\ util.fn = "none"
    /\ \E exists \in [PGroups -> BOOLEAN], day \in {None, 1} :
         util' = [fn |-> "process",
                  BASE_PARAMS |-> BASE_PARAMS,
                  ref |-> [g \in PGroups |-> "none"],
                  own |-> [g \in PGroups |-> BASE_PARAMS],
                  exists |-> exists,
                  files |-> [g \in PGroups |->
                               IF exists[g]
                               THEN [dict_update(BASE_PARAMS, ParamRecord(g))
                                        EXCEPT !.current_update = day]
                               ELSE BASE_PARAMS],
                  searched |-> [g \in PGroups |-> ""]]
    /\ UNCHANGED <<mainv, searchv>>

\* CMGroup.__init__ up to save_params(): get_params() gives the dict loaded
\* from the file, or BASE_PARAMS itself; update(params) changes that dict in
\* place; save_params() writes it to the group's file
ConstructGroup ==
    /\ util.fn = "process"
    /\ \E g \in PGroups :
         /\ util.ref[g] = "none"
         /\ LET p == IF util.exists[g]
                     THEN [util EXCEPT !.ref[g] = "own",
                                       !.own[g] = dict_update(util.files[g], ParamRecord(g))]
                     ELSE [util EXCEPT !.ref[g] = "BASE_PARAMS",
                                       !.BASE_PARAMS = dict_update(util.BASE_PARAMS, ParamRecord(g))]
            IN  util' = [p EXCEPT !.files[g] = params_of(p, g), !.exists[g] = TRUE]
    /\ UNCHANGED <<mainv, searchv>>

\* init_pubchem_search on a constructed group: the search is initiated with
\* self.searchstring, which reads self.params; then current_update is put
\* into the dict and save_params() writes it
InitGroupSearch ==
    /\ util.fn = "process"
    /\ \E g \in PGroups :
         /\ util.ref[g] # "none" /\ util.searched[g] = ""
         /\ LET today == 2
                p == IF util.ref[g] = "BASE_PARAMS"
                     THEN [util EXCEPT !.BASE_PARAMS.current_update = today]
                     ELSE [util EXCEPT !.own[g].current_update = today]
            IN  util' = [p EXCEPT !.searched[g] = params_of(util, g).searchstring,
                                  !.files[g] = params_of(p, g)]
    /\ UNCHANGED <<mainv, searchv>>

\* the caller has the result or the exception
UtilEnd ==
    /\ util.fn # "none"
    /\ util' = NoUtil
    /\ UNCHANGED <<mainv, searchv>>

NextUtil ==
    \/ Construct
    \/ Startup
    \/ Validate
    \/ Find
    \/ CompoundInfo
    \/ SelectSynonym
    \/ StartProcess
    \/ ConstructGroup
    \/ InitGroupSearch
    \/ UtilEnd

SpecUtil == InitSearch /\ [][NextUtil]_vars

(* ======================= properties of the update ====================== *)
\* the log's last line parses as a record
HasLast(text) == Lines(text) # <<>> /\ Lines(text)[Len(Lines(text))].k = "line"

LastCid(text) == Lines(text)[Len(Lines(text))].cid

\* an update_from_cids call has begun on a non-empty list and not been forgotten
InUpdate == upc \in {"fetch", "write", "done", "raised"}

\* the call has not yet asked the service anything nor written anything
AtStart == upc = "fetch" /\ nfetch = 0 /\ new_compounds = <<>> /\ cpds_file[ug] = start_log

\* C1: with no date filter and a list of distinct CIDs, a call that began with
\* a log whose last record is the k-th CID of the list and that ran to its end
\* has appended the records of the CIDs after the k-th, in list order, and
\* nothing else.
C1_ResumeAppendsRest ==
    ( /\ upc = "done"
      /\ last_updated[ug] = None
      /\ Distinct(returned_cids)
      /\ start_exists /\ HasLast(start_log)
      /\ LastCid(start_log) \in Range(returned_cids) )
    => cpds_file[ug] =
         start_log \o Compounds(SubSeq(returned_cids,
                                       Index(returned_cids, LastCid(start_log)) + 1,
                                       Len(returned_cids)))

\* the log held records for [1,2,3], the list is [1..MaxCid]: the log has
\* gained the records of 4..MaxCid and holds MaxCid lines
C1_Witness ==
    /\ upc = "done" /\ last_updated[ug] = None
    /\ returned_cids = Upto(MaxCid)
    /\ start_log = Compounds(Upto(3))
    /\ cpds_file[ug] = Compounds(Upto(MaxCid))
    /\ Len(cpds_file[ug]) = MaxCid

\* C2: a call that follows a completed update of the same list of distinct
\* CIDs leaves the log as it found it, with or without a date filter.
C2_SecondUpdateAppendsNothing ==
    (upc # "none" /\ again /\ Distinct(returned_cids))
    => /\ cpds_file[ug] = start_log
       /\ cpds_exists[ug] = start_exists
       /\ new_compounds = <<>>

\* C3: when the log's last record has a CID that is not in the list, the call
\* starts from the whole list, and with no date filter a call that ran to its
\* end has appended one record for every CID of the list.
C3_UnknownLastCidRestarts ==
    ( /\ InUpdate
      /\ start_exists /\ HasLast(start_log)
      /\ LastCid(start_log) \notin Range(returned_cids) )
    => /\ AtStart => cids = returned_cids
       /\ (upc = "done" /\ last_updated[ug] = None)
            => cpds_file[ug] = start_log \o Compounds(returned_cids)

\* the list's CIDs had records earlier in the log, and have got second ones
C3_Witness ==
    /\ upc = "done" /\ last_updated[ug] = None
    /\ start_exists /\ HasLast(start_log)
    /\ LastCid(start_log) \notin Range(returned_cids)
    /\ returned_cids # <<>>
    /\ \A i \in 1..Len(returned_cids) :
          \E j \in 1..Len(start_log) : start_log[j].cid = returned_cids[i]
    /\ Len(cpds_file[ug]) = Len(start_log) + Len(returned_cids)

\* the log was missing, empty or ended in a line that is not JSON
NoLastRecord == ~start_exists \/ Lines(start_log) = <<>> \/ ~HasLast(start_log)

\* C4: when the log is missing, is empty or ends in a line that is not JSON,
\* reading it raises nothing, the call starts from the whole list, and with
\* no date filter a call that ran to its end has appended one record for
\* every CID of the list.
C4_NoLastRecordRestarts ==
    (InUpdate /\ NoLastRecord)
    => /\ upc = "raised" => nfetch > 0
       /\ AtStart => cids = returned_cids
       /\ (upc = "done" /\ last_updated[ug] = None)
            => cpds_file[ug] = start_log \o Compounds(returned_cids)

\* the log ended in a line that is not JSON and the whole list was appended
C4_Witness ==
    /\ upc = "done" /\ last_updated[ug] = None
    /\ start_exists /\ Lines(start_log) # <<>> /\ ~HasLast(start_log)
    /\ returned_cids # <<>>
    /\ cpds_file[ug] = start_log \o Compounds(returned_cids)

\* C5: with the CID Result List missing or empty, update_from_cids returns at
\* once: no request to the service, the log untouched, no exception.
C5_EmptyListIsNoOp ==
    (upc # "none" /\ (~cids_exists[ug] \/ cids_file[ug] = <<>>))
    => /\ upc = "noop"
       /\ nfetch = 0
       /\ cpds_file[ug] = start_log /\ cpds_exists[ug] = start_exists

\* the list file is missing while the log holds records
C5_Witness ==
    /\ upc = "noop" /\ ~cids_exists[ug]
    /\ start_log # <<>> /\ cpds_file[ug] = start_log /\ nfetch = 0

\* C6: for a list of distinct CIDs and a cycle that began with the log holding
\* the records of a prefix of the list, whenever a call runs to its end -
\* however often the process stopped between batch writes before - the log
\* holds exactly one record for each CID the date filter keeps, in list order.
C6_CrashBetweenBatchesLosesNothing ==
    (upc \in {"done", "noop"} /\ Distinct(returned_cids) /\ cycle_prefix[ug])
    => cpds_file[ug] = Compounds(Kept(ug, returned_cids))

\* the process stopped after the first batch was written; the call made
\* afterwards resumed behind that batch and completed the log
C6_Witness ==
    /\ upc = "done" /\ Distinct(returned_cids) /\ cycle_prefix[ug]
    /\ clean_crash[ug]
    /\ Len(returned_cids) > BatchSize
    /\ Len(start_log) >= BatchSize
    /\ Len(cpds_file[ug]) > Len(start_log)
    /\ cpds_file[ug] = Compounds(Kept(ug, returned_cids))

(* ================== properties of the log and the token ================ *)
\* C7: in every step other than clear_data the log of every group keeps what
\* it held: the old content is a prefix of the new one and the file stays.
C7_LogOnlyGrows ==
    [][ \/ \E g \in G : CallClear(g)
        \/ \A g \in G : /\ IsPrefix(cpds_file[g], cpds_file'[g])
                        /\ cpds_exists[g] => cpds_exists'[g] ]_vars

\* a fresh batch run on a log with records: search initiated, results
\* retrieved, and the update has added records behind the old ones
C7_Witness ==
    /\ bpc = "updating" /\ ~resume_update /\ retr_called = G
    /\ upc = "done" /\ start_log # <<>>
    /\ IsPrefix(start_log, cpds_file[ug])
    /\ Len(cpds_file[ug]) > Len(start_log)

\* C8: a group has a ListKey only while a search of it is accepted and not
\* saved; a ListKey appears only in init_pubchem_search; and
\* retrieve_pubchem_search clears it in exactly the calls that write the
\* retrieved list to the CID Result List file.
C8_TokenOnlyInFlight ==
    /\ [](\A g \in G : listkey[g] # None => in_flight[g])
    /\ [][ \A g \in G :
             /\ (listkey[g] = None /\ listkey'[g] # None)
                  => (CallInit(g) \/ (BatchInit /\ bi = g))
             /\ (CallRetrieve(g) \/ (BatchRetrieve /\ bi = g))
                  => ((listkey[g] # None /\ listkey'[g] = None)
                        <=> (in_flight[g] /\ ~in_flight'[g])) ]_vars

\* in a batch of several groups the first group's results are saved and its
\* ListKey cleared while the second group's search is still in flight
C8_Witness ==
    /\ Cardinality(G) > 1 /\ bpc = "retrieve" /\ bi = 2
    /\ listkey[1] = None /\ ~in_flight[1] /\ current_update[1] # None
    /\ cids_exists[1] /\ cids_file[1] = <<>>
    /\ listkey[2] # None /\ in_flight[2]

(* ===================== properties of batch_cmg_search ================== *)
\* C9: in a fresh run the shared wait is slept at most once, only after
\* init_pubchem_search was called for every group, and no results are
\* retrieved before it; when the updates begin every group was initiated and
\* retrieved and the wait was slept once.
C9_InitAllSleepOnceRetrieve ==
    /\ sleeps <= 1
    /\ (sleeps = 1 \/ retr_called # {} \/ bpc = "retrieve")
         => (init_called = G /\ sleeps = 1 /\ ~resume_update)
    /\ (bpc \in {"update", "updating"} /\ ~resume_update)
         => (init_called = G /\ retr_called = G /\ sleeps = 1)

\* several groups, all initiated, one wait, the first group retrieved and the
\* second about to be
C9_Witness ==
    /\ Cardinality(G) > 1 /\ bpc = "retrieve" /\ bi = 2
    /\ init_called = G /\ retr_called = {1} /\ sleeps = 1

\* C10: a resume run calls neither init_pubchem_search nor
\* retrieve_pubchem_search and does not wait; while it runs no ListKey, saved
\* parameter file or CID Result List file changes, and each update works on
\* the list that is on disk.
C10_ResumeSkipsSearch ==
    /\ []( (resume_update /\ bpc # "idle")
             => /\ init_called = {} /\ retr_called = {} /\ sleeps = 0
                /\ bpc = "updating" => returned_cids = get_returned_cids(ug) )
    /\ [][ (resume_update /\ bpc # "idle" /\ ~Crash /\ ~CrashInWrite)
             => /\ listkey' = listkey
                /\ current_update' = current_update
                /\ cids_exists' = cids_exists /\ cids_file' = cids_file ]_vars

\* a resume run of several groups in which the second group's update has
\* appended records for the list found on disk, no search ever made
C10_Witness ==
    /\ Cardinality(G) > 1 /\ resume_update /\ bpc = "updating" /\ bi = 2
    /\ upc = "done" /\ returned_cids = cids_file[ug] /\ returned_cids # <<>>
    /\ Len(cpds_file[ug]) > Len(start_log)
    /\ \A g \in G : listkey[g] = None /\ current_update[g] = None

\* C11: in a fresh and in a resume run alike, to_excel is called for a group
\* only right after that group's update_from_cids has returned, and then it
\* is called - also when the update returned at once for want of a CID Result
\* List or appended nothing; no group is exported twice, the groups before
\* the current one are exported and the others not yet, and the call for the
\* last group leaves every group exported once.
C11_ExcelOncePerGroup ==
    /\ [](\A g \in G : excel_calls[g] <= 1)
    /\ [](bpc \in {"update", "updating"}
            => \A g \in G : excel_calls[g] = IF g < bi THEN 1 ELSE 0)
    /\ [][ (\E g \in G : excel_calls'[g] > excel_calls[g])
             => /\ bpc = "updating" /\ ug = bi /\ upc \in {"done", "noop"}
                /\ excel_calls' = [excel_calls EXCEPT ![bi] = 1]
                /\ bi = Cardinality(G) => \A g \in G : excel_calls'[g] = 1 ]_vars
    /\ [][ (bpc = "updating" /\ upc \in {"done", "noop"} /\ ~Crash)
             => excel_calls'[bi] = 1 ]_vars

\* a resume run of several groups has ended with every group exported once;
\* the last group had no CID Result List and its log was left alone
C11_Witness ==
    /\ Cardinality(G) > 1 /\ bpc = "idle" /\ resume_update
    /\ \A g \in G : excel_calls[g] = 1
    /\ upc = "noop" /\ ug = Cardinality(G) /\ ~cids_exists[ug]
    /\ cpds_file[ug] = start_log

\* C12: a failure while one group is initiated, retrieved or updated does not
\* stop the other groups: whenever a batch_cmg_search call ends, every group
\* other than the one it was handling has been updated and exported.
C12_FailureDoesNotStopOtherGroups ==
    [][ (bpc # "idle" /\ bpc' = "idle" /\ ~Crash /\ ~CrashInWrite)
          => \A g \in G \ {bi} : excel_calls'[g] = 1 ]_vars

C14_OtherSearchtypeRaises ==
    /\ [](\A g \in G : searchtype[g] # "substructure"
             => (listkey[g] = None /\ ~in_flight[g] /\ current_update[g] = None))
    /\ [][ (svc'.op = "init" /\ searchtype[svc'.g] # "substructure")
             => /\ svc'.raised /\ svc'.resp = "none"
                /\ listkey' = listkey /\ listkey'[svc'.g] = None
                /\ in_flight' = in_flight
                /\ current_update' = current_update
                /\ BatchInit => (bpc' = "idle" /\ bi' = bi) ]_vars

\* a fresh run of several groups: the first group's search was accepted, the
\* second group has another searchtype and its call has just raised
C14_Witness ==
    /\ svc.op = "init" /\ svc.g = 2 /\ searchtype[2] = "other"
    /\ svc.raised /\ svc.resp = "none"
    /\ init_called = {1, 2} /\ bpc = "idle"
    /\ listkey[1] # None /\ current_update[1] # None
    /\ listkey[2] = None /\ current_update[2] = None

\* C15: when the service fails during init_pubchem_search or
\* retrieve_pubchem_search (a status that was not expected, a response that
\* is malformed), no exception leaves the method and the group's ListKey,
\* saved current_update, CID Result List file and log are as before the call.
C15_ServiceFailureLeavesState ==
    [][ (svc'.op \in {"init", "retrieve"} /\ svc'.resp \in {"rejected", "malformed", "fault"})
          => /\ ~svc'.raised
             /\ listkey' = listkey /\ current_update' = current_update
             /\ cids_exists' = cids_exists /\ cids_file' = cids_file
             /\ cpds_exists' = cpds_exists /\ cpds_file' = cpds_file ]_vars

\* C20: a retrieve_pubchem_search call that got a list from the service
\* leaves the group's CID Result List file holding exactly that list,
\* whatever the file held before, and no other group's file is touched.
C20_ResultListOverwritten ==
    [][ (svc'.op = "retrieve" /\ svc'.resp = "cids")
          => /\ cids_exists'[svc'.g] /\ cids_file'[svc'.g] = svc'.cids
             /\ \A h \in G \ {svc'.g} :
                   cids_exists'[h] = cids_exists[h] /\ cids_file'[h] = cids_file[h] ]_vars

\* the list of MaxCid CIDs whose records the log holds was replaced by a
\* list of two
C20_Witness ==
    /\ svc.op = "retrieve" /\ svc.resp = "cids" /\ svc.cids = Upto(2)
    /\ cids_file[svc.g] = Upto(2)
    /\ cpds_file[svc.g] = Compounds(Upto(MaxCid))

(* ================= properties of the search functions ================== *)
\* the call was retrieve_search_results, directly or from substruct_search,
\* and has ended
Retrieved == fpc \in {"returned", "raised"} /\ fn # "init_substruct_search"

\* C16: when the service answers the search request with anything but 202,
\* init_substruct_search raises WebServiceError; it returns neither a ListKey
\* nor None.
C16_InitRaisesWebServiceError ==
    (fn = "init_substruct_search" /\ fpc \in {"returned", "raised"} /\ req.status # Accepted)
    => (fpc = "raised" /\ fret.exc = "WebServiceError")

\* C17: when the response that ends the polling carries no list of CIDs,
\* retrieve_search_results either returns the empty list (zero results) or
\* raises WebServiceError (any other failure).
C17_NoListIsEmptyOrWebServiceError ==
    (Retrieved /\ ~NotReady(req) /\ req.body # "IdentifierList")
    => \/ fret = Returned("list", None, <<>>)
       \/ fret.exc = "WebServiceError"

\* C18: while the service answers 202, retrieve_search_results neither
\* returns nor raises: it sleeps PollDelay seconds and asks again.  The first
\* response with another status ends the polling, and a list that is
\* returned is the list of CIDs of that response, in its order.
C18_PollsWhileNotReady ==
    /\ [](fpc = "slept" => (nap = PollDelay /\ req.status = Accepted))
    /\ []((Retrieved /\ fpc = "returned")
            => (req.status # Accepted /\ fret = Returned("list", None, req.cids)))
    /\ [][ (fpc = "polled" /\ req.status = Accepted)
             => (fpc' = "slept" /\ fret' = fret /\ req' = req) ]_vars
    /\ [][ fpc = "slept" => fpc' = "polled" ]_vars
    /\ [][ (fpc = "polled" /\ req.status # Accepted)
             => fpc' \in {"returned", "raised"} ]_vars

\* the search was not ready, the function slept PollDelay seconds, asked
\* again and returned the list of the later response in the order given
C18_Witness ==
    /\ fn = "retrieve_search_results" /\ fpc = "returned"
    /\ nap = PollDelay
    /\ req.status = 200 /\ req.cids = Down(3)
    /\ fret = Returned("list", None, Down(3))

\* C19: retrieve_search_results does not wait forever: once it has asked for
\* the results it returns or raises after finitely many requests, whatever
\* the service answers.
C19_PollingEnds == (fpc = "polled") ~> (fpc \in {"returned", "raised"})

(* ============ properties of the log against the result list ============ *)
\* the CIDs of the records of a log, in order
RecordCids(text) ==
    LET recs == SelectSeq(Lines(text), LAMBDA l : l.k = "line")
    IN  [i \in 1..Len(recs) |-> recs[i].cid]

\* C21: when update_from_cids has run to its end, every CID of the CID Result
\* List that the date filter does not skip has a record in the log, whatever
\* the log held before the call.
C21_EveryListedCidLogged ==
    upc = "done"
    => \A c \in Range(returned_cids) :
         ~Skipped(ug, c) => c \in Range(RecordCids(cpds_file[ug]))

\* C22: update_from_cids does not duplicate entries: a call on a list without
\* repeated CIDs and a log in which no CID has two records leaves a log in
\* which no CID has two records, also when it falls back to the whole list.
C22_NoDuplicateRecords ==
    (upc = "done" /\ Distinct(returned_cids) /\ Distinct(RecordCids(start_log)))
    => Distinct(RecordCids(cpds_file[ug]))

\* C23: a batch reaches the log whole or not at all: wherever the process
\* stops while a batch is being written, the log holds what it held before
\* the write, or that followed by every record of the batch.
C23_BatchWrittenWhole ==
    [][ (upc = "write" /\ (WriteBatch \/ Crash \/ CrashInWrite))
          => \/ cpds_file'[ug] = cpds_file[ug]
             \/ cpds_file'[ug] = cpds_file[ug] \o new_compounds ]_vars

\* every line of the log is a record
Wellformed(text) == \A i \in 1..Len(text) : text[i].k = "line"

\* C24: a call that follows a completed update of the same list of distinct
\* CIDs, on a log of whole records, asks the service nothing - no creation
\* date, no CASRNs, no compound - also when the group has a last_updated date.
C24_SecondUpdateFetchesNothing ==
    (upc # "none" /\ again /\ Distinct(returned_cids) /\ Wellformed(start_log))
    => nfetch = 0

\* C25: every record update_from_cids has appended is returned by
\* get_compounds at the position it has in the log, equal field for field to
\* the record gen_compounds yielded.
C25_RecordsReadBack ==
    upc \in {"fetch", "write", "done"}
    => \A i \in (Len(start_log) + 1)..Len(cpds_file[ug]) :
         /\ i <= Len(get_compounds(ug))
         /\ get_compounds(ug)[i] = Result(cpds_file[ug][i].cid, created[cpds_file[ug][i].cid])

(* ================= properties of the files of a group ================== *)
\* C26: clear_data removes the saved parameters, the CID Result List file and
\* the log of the group, whichever of them exist, and raises nothing when
\* some or all are missing; afterwards get_compounds and get_returned_cids
\* return empty lists.  The parameters the group was made from and the
\* files of other groups are not touched.
C26_ClearData ==
    [][ \A g \in G :
          (svc'.op = "clear" /\ svc'.g = g)
          => /\ ~svc'.raised
             /\ ~params_exists'[g] /\ ~cids_exists'[g] /\ ~cpds_exists'[g]
             /\ get_compounds(g)' = <<>>
             /\ get_returned_cids(g)' = <<>>
             /\ UNCHANGED consts
             /\ \A h \in G \ {g} :
                   /\ params_exists'[h] = params_exists[h]
                   /\ cids_file'[h] = cids_file[h] /\ cids_exists'[h] = cids_exists[h]
                   /\ cpds_file'[h] = cpds_file[h] /\ cpds_exists'[h] = cpds_exists[h] ]_vars

\* clear_data was called twice in a row: the second call found none of the
\* three files
C26_Witness ==
    /\ svc.op = "clear" /\ svc.resp = "nothing" /\ ~svc.raised
    /\ calls = 2
    /\ get_compounds(svc.g) = <<>> /\ get_returned_cids(svc.g) = <<>>

\* C27: a current_update date that init_pubchem_search has saved is still the
\* group's saved current_update after the process has stopped and a new
\* process has constructed the group from its original parameters.
C27_CurrentUpdateSurvivesRestart ==
    [][ (Crash \/ CrashInWrite)
          => \A g \in G : current_update[g] # None
                => (params_exists'[g] /\ current_update'[g] = current_update[g]) ]_vars

\* the process stopped after a search was accepted and before its results
\* were retrieved: the new process has no ListKey for the group, but the
\* date of the update is there
C27_Witness ==
    \E g \in G :
      /\ in_flight[g] /\ listkey[g] = None
      /\ params_exists[g] /\ current_update[g] \in Todays
      /\ bpc = "idle" /\ upc = "none" /\ svc = NoCall

\* the text of a parameter is three numbers between hyphens that name a day
IsDate(v) ==
    /\ ~v.null
    /\ LET parts == split(v.str, "-") IN
       /\ Len(parts) = 3
       /\ \A i \in 1..3 : int_ok(parts[i])
       /\ date([i \in 1..3 |-> int(parts[i])]).exc = ""

\* C28: a group constructed from parameters whose last_updated is absent,
\* empty or not a date is constructed without an exception and has
\* last_updated = None, which makes gen_compounds skip no CID by date.
\* Stated for a group that has no stored parameters yet.
C28_NoDateIsNone ==
    (/\ util.fn = "__init__" /\ util.base = Null
     /\ ~util.params.has \/ ~IsDate(util.params.value))
        => (util.out.raised = "" /\ util.out.last_updated = None)

\* neither the key file given to the environment nor the one CAMELID_KEYFILE
\* names is there
CredentialsMissing ==
    /\ util.key_file = "" \/ util.key_file \notin util.exists
    /\ util.getenv = "" \/ util.getenv \notin util.exists

\* run got as far as constructing the groups
GroupsConstructed ==
    \E i \in 1..Len(util.out.steps) :
        util.out.steps[i] \in {"CMGroup", "clear_data", "batch_cmg_search"}

\* C29 as stated: whenever the credentials are missing, run raises
\* NoCredentialsError before any group is constructed.
C29_MissingCredentialsRaise ==
    (util.fn = "run" /\ CredentialsMissing)
        => (util.out.raised = "NoCredentialsError" /\ ~GroupsConstructed)

\* C29: when the groups are read from the Google Sheet and the credentials
\* are missing, run raises NoCredentialsError before any group is
\* constructed, any search initiated or any file of a group written.
C29_MissingCredentialsRaiseForSheet ==
    (util.fn = "run" /\ ~util.json_file /\ CredentialsMissing)
        => (util.out.raised = "NoCredentialsError" /\ ~GroupsConstructed)

\* the sheet was asked for, CAMELID_KEYFILE names a file that is not there
C29_Witness ==
    /\ util.fn = "run" /\ ~util.json_file
    /\ util.key_file = "" /\ util.getenv = "env.json" /\ util.exists = {}
    /\ util.out.raised = "NoCredentialsError"
    /\ util.out.steps = <<"SheetManager">>

\* the sum over i = 1..k of d_i * (n - i), n the number of digits
RECURSIVE WeightedSum(_, _)
WeightedSum(d, k) ==
    IF k = 0 THEN 0
    ELSE int_digit(d[k]) * (Len(d) - k) + WeightedSum(d, k - 1)

ChecksumValid(text) ==
    LET d == SelectSeq(text, isdigit) IN
    Len(d) >= 5 /\ WeightedSum(d, Len(d) - 1) % 10 = int_digit(d[Len(d)])

\* C30: validate raises nothing and reports the input valid exactly when at
\* least 5 digits d_1..d_n remain and (sum of d_i * (n - i), i = 1..n-1)
\* mod 10 = d_n; an invalid input gives False in boolean mode, None otherwise.
C30_ValidateChecksum ==
    util.fn = "validate"
        => /\ util.raised = ""
           /\ util.out.bool = ChecksumValid(util.casrn)
           /\ util.output = "bool" => util.out.kind = "bool"
           /\ util.output = "str"
                => util.out.kind = (IF ChecksumValid(util.casrn) THEN "str" ELSE "None")

\* a text with other characters among its digits, whose first digit counts
\* four times, was found valid and hyphenated
C30_Witness ==
    /\ util.fn = "validate" /\ util.output = "str"
    /\ util.casrn = <<"5", "0", "0", "-", "0", "0">>
    /\ util.out.kind = "str"
    /\ util.out.str = <<"5", "0", "-", "0", "0", "-", "0">>


\* C31: for a valid input validate returns the digits alone, hyphenated as
\* <all but the last three>-<next two>-<last>, whatever else the input holds;
\* validate('50--00--0 ') = '50-00-0' and validate('50-00-5') is invalid.
C31_ValidateCanonical ==
    (util.fn = "validate" /\ util.output = "str")
        => /\ util.out.kind = "str"
                => util.out.str = Canonical(SelectSeq(util.casrn, isdigit))
           /\ util.casrn = <<"5", "0", "-", "-", "0", "0", "-", "-", "0", " ">>
                => util.out.str = <<"5", "0", "-", "0", "0", "-", "0">>
           /\ util.casrn = <<"5", "0", "-", "0", "0", "-", "5">>
                => util.out.kind = "None"

\* the badly hyphenated example came back in canonical form
C31_Witness ==
    /\ util.fn = "validate" /\ util.output = "str"
    /\ util.casrn = <<"5", "0", "-", "-", "0", "0", "-", "-", "0", " ">>
    /\ util.out.kind = "str"
    /\ util.out.str = <<"5", "0", "-", "0", "0", "-", "0">>

\* a substring of the shape 2-7 digits, separator, 2 digits, separator,
\* 1 digit begins at s[i] and ends at s[j]
Shape(s, i, j) ==
    \E n \in 2..7 :
      /\ j = i + n + 4 /\ j <= Len(s)
      /\ \A k \in i..(i + n - 1) : isdigit(s[k])
      /\ issep(s[i + n]) /\ isdigit(s[i + n + 1]) /\ isdigit(s[i + n + 2])
      /\ issep(s[i + n + 3]) /\ isdigit(s[j])

\* the substrings of the shape that pass validate, as pairs of indices
ValidShapes(s) ==
    {p \in (1..Len(s)) \X (1..Len(s)) :
        Shape(s, p[1], p[2]) /\ ChecksumValid(SubSeq(s, p[1], p[2]))}

\* a substring of the shape is a match when no match that begins before it
\* reaches into it
RECURSIVE IsMatch(_, _, _)
IsMatch(s, i, j) ==
    /\ Shape(s, i, j)
    /\ \A k \in 1..(i - 1), m \in i..Len(s) : ~IsMatch(s, k, m)

ValidMatches(s) ==
    {p \in (1..Len(s)) \X (1..Len(s)) :
        IsMatch(s, p[1], p[2]) /\ ChecksumValid(SubSeq(s, p[1], p[2]))}

\* out lists the canonical forms of the substrings P of s, one entry for
\* each, in the order in which they begin
ListsInOrder(out, s, P) ==
    /\ Len(out) = Cardinality({p[1] : p \in P})
    /\ \A p \in P :
         out[Cardinality({q[1] : q \in {r \in P : r[1] <= p[1]}})]
            = Canonical(SelectSeq(SubSeq(s, p[1], p[2]), isdigit))

\* C32 as stated: find returns the canonical form of every substring of the
\* shape that passes validate, in order of occurrence.
C32_FindEverySubstring ==
    util.fn = "find" => ListsInOrder(util.out, util.string, ValidShapes(util.string))

\* C32: find scans the text from left to right for matches of the shape that
\* do not overlap, and returns the canonical form of every match that passes
\* validate, in order of occurrence, dropping the matches that fail and
\* keeping a CASRN that occurs twice twice; the example of the docstring
\* gives 50-00-0 and 57-13-6.
C32_FindEveryMatch ==
    util.fn = "find"
        => /\ util.raised = ""
           /\ ListsInOrder(util.out, util.string, ValidMatches(util.string))
           /\ util.string = FindExample
                => util.out = <<<<"5", "0", "-", "0", "0", "-", "0">>,
                                <<"5", "7", "-", "1", "3", "-", "6">>>>

\* a text that names one CASRN twice gave it twice
C32_Witness ==
    /\ util.fn = "find" /\ Len(util.string) = 15
    /\ util.out = <<<<"5", "0", "-", "0", "0", "-", "0">>,
                    <<"5", "0", "-", "0", "0", "-", "0">>>>

\* the first place of x in the sequence s, 0 if it is not there
FirstAt(s, x) ==
    IF \E i \in 1..Len(s) : s[i] = x
    THEN CHOOSE i \in 1..Len(s) : s[i] = x /\ \A j \in 1..(i - 1) : s[j] # x
    ELSE 0

\* the CASRNs the service designates: its CAS values that pass validate
KnownCasrns == {util.values[i] : i \in {k \in 1..Len(util.values) : ChecksumValid(util.values[k])}}

\* the CASRNs that the synonyms name
SynonymCasrns ==
    {Canonical(SelectSeq(util.synonyms[i], isdigit)) :
        i \in {k \in 1..Len(util.synonyms) : ChecksumValid(util.synonyms[k])}}

C33_AllowOverridesDeny ==
    util.fn = "select_synonym"
        => /\ util.raised = ""
           /\ util.out = (selected(util.synonym) \/ ~deselected(util.synonym))
           /\ util.synonym \in {<<"U", "N", "I", "I", "-", "1", "2", "3", "4", "5">>,
                                <<"a", "z", "i", "r", "i", "d", "i", "n", "e">>}
                => util.out = TRUE
           /\ util.synonym \in {<<"I", "n", "C", "h", "I", "=", "F", "O", "O", "B", "A", "R">>,
                                <<"C", "2", "8", "H", "1", "8", "N", "4", "O", "6", "S", "4", ".", "2", "N", "a">>}
                => util.out = FALSE

\* a synonym that the deny-list matches (five digits in a row) was kept
\* because the allow-list matches it too
C33_Witness ==
    /\ util.fn = "select_synonym"
    /\ util.synonym = <<"U", "N", "I", "I", "-", "1", "2", "3", "4", "5">>
    /\ deselected(util.synonym) /\ selected(util.synonym)
    /\ util.out = TRUE

\* C35: groups do not share parameters: whatever groups are constructed and
\* whatever searches are initiated in a process, every constructed group
\* sees the materialid and the search string of its own parameter record,
\* its search is initiated with its own search string, and its parameter
\* file holds its own values.
C35_GroupsDoNotShareParams ==
    util.fn = "process"
        => \A g \in PGroups :
             util.ref[g] # "none"
                => /\ params_of(util, g).materialid = g
                   /\ params_of(util, g).searchstring = ParamRecord(g).searchstring
                   /\ util.searched[g] \in {"", ParamRecord(g).searchstring}
                   /\ util.files[g].materialid = g
                   /\ util.files[g].searchstring = ParamRecord(g).searchstring

(* ===================== properties of batch_cmg_search ================== *)
\* C36: in a fresh batch_cmg_search run, a group for which no CID Result
\* List was saved in that run (its search was not accepted, or its results
\* were not retrieved) appends nothing to its log in that run.
C36_FailedSearchAppendsNothing ==
    [][ (bpc # "idle" /\ ~resume_update /\ ~Crash /\ ~CrashInWrite)
          => \A g \in G \ retr_saved :
               cpds_file'[g] = cpds_file[g] /\ cpds_exists'[g] = cpds_exists[g] ]_vars

\* C37: a CID whose creation date is unknown does not abort update_from_cids,
\* with or without a last_updated date: once its creation date has been asked
\* for, its record, with an empty creation_date, joins the batch and the rest
\* of the list is still to come (unless fetching its compound information,
\* the second request, fails).
C37_UnknownDateDoesNotAbort ==
    [][ (/\ upc = "fetch" /\ cids # <<>> /\ created[Head(cids)] = None
         /\ nfetch' # nfetch)
          => \/ /\ upc' # "raised"
                /\ new_compounds' = Append(new_compounds, Line(Head(cids), None))
                /\ cids' = Tail(cids)
             \/ nfetch' = nfetch + 2 /\ upc' = "raised" ]_vars

\* C38: when update_from_cids is called again after every stop of the process
\* with the same CID Result List, a call that runs to its end leaves a log
\* with a record for every CID of the list that the date filter keeps, and a
\* call made after that appends nothing.
C38_ResumedUpdateCompletes ==
    /\ upc = "done"
         => \A c \in Range(returned_cids) :
              ~Skipped(ug, c) => c \in Range(RecordCids(cpds_file[ug]))
    /\ (upc # "none" /\ again) => cpds_file[ug] = start_log

\* C39: update_from_cids never holds more than 5 fetched records unwritten:
\* no request is made to the service while 5 records wait, the write that
\* follows puts exactly those records behind the log and leaves none
\* waiting, and a stop of the process finds at most 5 unwritten.
C39_AtMostOneBatchUnwritten ==
    /\ [](Len(new_compounds) <= BatchSize)
    /\ [][ /\ nfetch' > nfetch => Len(new_compounds) < BatchSize
           /\ (upc = "write" /\ upc' = "fetch")
                => /\ cpds_file'[ug] = cpds_file[ug] \o new_compounds
                   /\ new_compounds' = <<>> ]_vars

\* the first batch of 5 is in the log and the sixth record has been fetched
C39_Witness ==
    /\ upc = "fetch" /\ Len(new_compounds) = 1 /\ cids = <<>>
    /\ Len(returned_cids) > BatchSize
    /\ Len(cpds_file[ug]) = Len(start_log) + BatchSize

(* ================ properties of retrieve_pubchem_search ================ *)
\* C40: retrieve_pubchem_search on a group that has no ListKey - never
\* initiated, initiated without getting one, or already retrieved - asks the
\* service nothing, raises nothing, and leaves the CID Result List file and
\* the log (and every other file and the ListKeys) as they were.
C40_NoTokenNoRetrieval ==
    [][ \A g \in G :
          (svc'.op = "retrieve" /\ svc'.g = g /\ listkey[g] = None)
            => /\ svc'.resp = "none" /\ svc'.cids = <<>> /\ ~svc'.raised
               /\ listkey' = listkey
               /\ UNCHANGED files ]_vars

\* the search request of the group was rejected, so that init_pubchem_search
\* left no ListKey, and retrieve_pubchem_search was called next; the list
\* of an earlier search is still in the file
C40_Witness ==
    /\ svc.op = "retrieve" /\ svc.resp = "none" /\ ~svc.raised
    /\ calls = 2
    /\ current_update[svc.g] \in Todays /\ ~in_flight[svc.g]
    /\ cids_exists[svc.g] /\ cids_file[svc.g] # <<>>

====
